---------------------------- MODULE Spec2Model ----------------------------
(***************************************************************************)
(* DAO coin limit order exchange arithmetic of the backend API             *)
(* (routes/dao_coin_exchange.go and its older copy in unnamed/part_001).   *)
(*                                                                         *)
(* uint256.Int and big.Int values are modelled exactly as sequences of     *)
(* base-10^4 limbs, most significant limb first, without leading zero      *)
(* limbs; the number zero is the empty sequence.  Go strings are modelled  *)
(* as sequences of one-character strings.                                  *)
(***************************************************************************)
EXTENDS Integers, Sequences, FiniteSets, TLC

Base == 10^4

(***************************************************************************)
(* Evaluation helpers.  Then(v, F) evaluates v once and then F(v), the way *)
(* a Go statement sequence evaluates an assignment before its uses.        *)
(***************************************************************************)
Only(S) == CHOOSE r \in S : TRUE
Then(v, F(_)) == Only({F(x) : x \in {v}})
MaxOf(m, n) == IF m > n THEN m ELSE n
MinOf(m, n) == IF m < n THEN m ELSE n


Norm(s) ==
    LET nz == {i \in 1..Len(s) : s[i] # 0}
    IN IF nz = {} THEN <<>>
       ELSE SubSeq(s, CHOOSE i \in nz : \A j \in nz : i <= j, Len(s))

LimbAt(a, k) == IF k < Len(a) THEN a[Len(a) - k] ELSE 0

RECURSIVE CmpRange(_, _, _, _)
CmpRange(a, b, lo, hi) ==
    IF lo = hi
    THEN IF a[lo] < b[lo] THEN -1 ELSE IF a[lo] > b[lo] THEN 1 ELSE 0
    ELSE Then(CmpRange(a, b, lo, (lo + hi) \div 2),
              LAMBDA c : IF c # 0 THEN c ELSE CmpRange(a, b, (lo + hi) \div 2 + 1, hi))
BigCmp(a, b) ==
    IF Len(a) < Len(b) THEN -1
    ELSE IF Len(a) > Len(b) THEN 1
    ELSE IF Len(a) = 0 THEN 0
    ELSE CmpRange(a, b, 1, Len(a))

RECURSIVE AddRange(_, _, _, _, _)
AddRange(a, b, lo, hi, carry) ==
    IF lo = hi
    THEN LET s == LimbAt(a, lo) + LimbAt(b, lo) + carry
         IN <<s \div Base, <<s % Base>>>>
    ELSE Then(AddRange(a, b, lo, (lo + hi) \div 2, carry), LAMBDA low :
         Then(AddRange(a, b, (lo + hi) \div 2 + 1, hi, low[1]), LAMBDA high :
              <<high[1], high[2] \o low[2]>>))
BigAdd(a, b) ==
    IF a = <<>> THEN b
    ELSE IF b = <<>> THEN a
    ELSE Then(AddRange(a, b, 0, MaxOf(Len(a), Len(b)) - 1, 0),
              LAMBDA r : IF r[1] = 0 THEN r[2] ELSE <<r[1]>> \o r[2])

RECURSIVE SubRange(_, _, _, _, _)
SubRange(a, b, lo, hi, borrow) ==
    IF lo = hi
    THEN LET s == LimbAt(a, lo) - LimbAt(b, lo) - borrow
         IN <<IF s < 0 THEN 1 ELSE 0, <<(s + Base) % Base>>>>
    ELSE Then(SubRange(a, b, lo, (lo + hi) \div 2, borrow), LAMBDA low :
         Then(SubRange(a, b, (lo + hi) \div 2 + 1, hi, low[1]), LAMBDA high :
              <<high[1], high[2] \o low[2]>>))
BigSub(a, b) ==
    IF b = <<>> THEN a
    ELSE Norm(SubRange(a, b, 0, Len(a) - 1, 0)[2])

BigMulSmall(a, d) ==
    IF a = <<>> \/ d = 0 THEN <<>>
    ELSE Then(Norm([i \in 1..Len(a) |-> (a[i] * d) % Base]), LAMBDA lows :
         Then(Norm([i \in 1..Len(a) + 1 |-> IF i > Len(a) THEN 0 ELSE (a[i] * d) \div Base]), LAMBDA highs :
              BigAdd(highs, lows)))

ShiftLimbs(a, n) == IF a = <<>> THEN <<>> ELSE a \o [i \in 1..n |-> 0]

RECURSIVE MulRange(_, _, _, _)
MulRange(a, b, lo, hi) ==
    IF lo = hi THEN BigMulSmall(a, b[lo])
    ELSE Then(ShiftLimbs(MulRange(a, b, lo, (lo + hi) \div 2), hi - (lo + hi) \div 2), LAMBDA high :
         Then(MulRange(a, b, (lo + hi) \div 2 + 1, hi), LAMBDA low :
              BigAdd(high, low)))
BigMul(a, b) == IF a = <<>> \/ b = <<>> THEN <<>> ELSE MulRange(a, b, 1, Len(b))

RECURSIVE DivSmallRange(_, _, _, _, _)
DivSmallRange(a, d, lo, hi, rem) ==
    IF lo = hi
    THEN LET cur == rem * Base + a[lo]
         IN <<<<cur \div d>>, cur % d>>
    ELSE Then(DivSmallRange(a, d, lo, (lo + hi) \div 2, rem), LAMBDA left :
         Then(DivSmallRange(a, d, (lo + hi) \div 2 + 1, hi, left[2]), LAMBDA right :
              <<left[1] \o right[1], right[2]>>))
BigDivModSmall(a, d) ==
    IF a = <<>> THEN <<<<>>, 0>>
    ELSE Then(DivSmallRange(a, d, 1, Len(a), 0), LAMBDA r : <<Norm(r[1]), r[2]>>)

RECURSIVE QLimbDown(_, _, _)
QLimbDown(r, v, q) ==
    IF q = 0 THEN <<0, r>>
    ELSE Then(BigMulSmall(v, q), LAMBDA p :
              IF BigCmp(p, r) <= 0 THEN <<q, BigSub(r, p)>> ELSE QLimbDown(r, v, q - 1))

QLimbStep(rem, limb, v) ==
    Then(Norm(rem \o <<limb>>), LAMBDA r :
    Then(MinOf((LimbAt(r, Len(v)) * Base + LimbAt(r, Len(v) - 1)) \div v[1], Base - 1), LAMBDA qhat :
         QLimbDown(r, v, qhat)))

RECURSIVE DivRange(_, _, _, _, _)
DivRange(u, v, lo, hi, rem) ==
    IF lo = hi
    THEN Then(QLimbStep(rem, u[lo], v), LAMBDA s : <<<<s[1]>>, s[2]>>)
    ELSE Then(DivRange(u, v, lo, (lo + hi) \div 2, rem), LAMBDA left :
         Then(DivRange(u, v, (lo + hi) \div 2 + 1, hi, left[2]), LAMBDA right :
              <<left[1] \o right[1], right[2]>>))

BigDivMod(a, b) ==
    IF BigCmp(a, b) < 0 THEN <<<<>>, a>>
    ELSE Then(Base \div (b[1] + 1), LAMBDA f :
         Then(BigMulSmall(a, f), LAMBDA u :
         Then(BigMulSmall(b, f), LAMBDA v :
         Then(DivRange(u, v, 1, Len(u), <<>>), LAMBDA r :
              <<Norm(r[1]), BigDivModSmall(r[2], f)[1]>>))))
BigDiv(a, b) == BigDivMod(a, b)[1]
BigMod(a, b) == BigDivMod(a, b)[2]

(***************************************************************************)
(* Numbers of the program.                                                 *)
(***************************************************************************)
Zero == <<>>
Pow10(k) == <<10^(k % 4)>> \o [i \in 1..(k \div 4) |-> 0]

RECURSIVE BigPow2(_)
BigPow2(n) ==
    IF n = 0 THEN <<1>>
    ELSE Then(BigPow2(n \div 2), LAMBDA h :
         Then(BigMul(h, h), LAMBDA sq :
              IF n % 2 = 1 THEN BigMulSmall(sq, 2) ELSE sq))

\* Width of uint256.Int; a value is representable iff it is below 2^256.
Uint256Bits == 256
TwoTo256 == BigPow2(Uint256Bits)
MaxUint256 == BigSub(TwoTo256, <<1>>)

\* lib.OneE38, lib.BaseUnitsPerCoin and lib.NanosPerUnit of the core library.
OneE38 == Pow10(38)
BaseUnitsPerCoin == Pow10(18)
NanosPerUnit == Pow10(9)

\* The nil *uint256.Int returned next to an error.
NilInt == <<-1>>

(***************************************************************************)
(* uint256.Int and big.Int operations used by the program.                 *)
(***************************************************************************)
IsZero(x) == x = Zero

\* A variant of MulOverflow that wraps modulo 2^256 without reporting it.
MulOverflowWrapping(x, y) ==
    [overflow |-> FALSE, val |-> BigMod(BigMul(x, y), TwoTo256)]

\* z.MulOverflow(x, y): z = x * y mod 2^256, reports whether x * y >= 2^256.
MulOverflow(x, y) ==
    Then(BigMul(x, y), LAMBDA p :
         [overflow |-> BigCmp(p, MaxUint256) > 0, val |-> BigMod(p, TwoTo256)])

\* A variant for integers of half the width.
FromBigHalfWidth(b) ==
    [overflow |-> BigCmp(b, BigPow2(Uint256Bits \div 2)) >= 0,
     val |-> BigMod(b, BigPow2(Uint256Bits \div 2))]

\* uint256.FromBig(b): the low 256 bits of b and whether b needed more.
FromBig(b) == [overflow |-> BigCmp(b, MaxUint256) > 0, val |-> BigMod(b, TwoTo256)]

\* uint256 z.Div(x, y): floor(x / y), and 0 when y = 0.
Uint256Div(x, y) == IF y = Zero THEN Zero ELSE BigDiv(x, y)

getDESOToDAOCoinBaseUnitsScalingFactor == Uint256Div(BaseUnitsPerCoin, NanosPerUnit)

(***************************************************************************)
(* Strings.                                                                *)
(***************************************************************************)
DigitChars == <<"0", "1", "2", "3", "4", "5", "6", "7", "8", "9">>
LimbDigits(l) == <<l \div 1000, (l \div 100) % 10, (l \div 10) % 10, l % 10>>

\* The decimal digits of a non-negative integer, none for zero.
DecimalDigits(a) ==
    Norm([i \in 1..(4 * Len(a)) |-> LimbDigits(a[(i + 3) \div 4])[((i - 1) % 4) + 1]])

\* fmt.Sprintf("%d", a) for a non-negative big.Int.
SprintfD(a) ==
    IF a = Zero THEN <<"0">>
    ELSE Then(DecimalDigits(a), LAMBDA ds : [i \in 1..Len(ds) |-> DigitChars[ds[i] + 1]])

\* strings.Repeat("0", count); a negative count panics.
PanicString == <<"panic: strings: negative Repeat count">>
RepeatZero(count) == IF count < 0 THEN PanicString ELSE [i \in 1..count |-> "0"]

(***************************************************************************)
(* getNumDigits: the loop divides by ten until the quotient is zero.  The  *)
(* loop state is <<quotient, numDigits>>; getNumDigitsLoop runs at most    *)
(* 2^MaxLoopLog iterations of it, enough for every non-negative value of   *)
(* the model.                                                              *)
(***************************************************************************)
MaxLoopLog == 8

\* A negative big.Int is <<-1>> followed by the limbs of its magnitude.
Negative(mag) == <<-1>> \o mag
IsNegative(x) == Len(x) >= 2 /\ x[1] = -1
Magnitude(x) == IF IsNegative(x) THEN Tail(x) ELSE x

\* quotient.Div(quotient, ten): Euclidean division, the remainder is never
\* negative, so a negative quotient is rounded away from zero.
DivByTen(x) ==
    IF IsNegative(x)
    THEN Negative(BigDivModSmall(BigAdd(Magnitude(x), <<9>>), 10)[1])
    ELSE BigDivModSmall(x, 10)[1]

\* The loop condition quotient.Cmp(zero) != 0; the variant stops one digit early.
getNumDigitsContinueAboveNine(quotient) == BigCmp(Magnitude(quotient), <<9>>) > 0
getNumDigitsContinue(quotient) == quotient # Zero

getNumDigitsStep(st) == <<DivByTen(st[1]), st[2] + 1>>

RECURSIVE getNumDigitsLoop(_, _)
getNumDigitsLoop(st, log) ==
    IF ~getNumDigitsContinue(st[1]) THEN st
    ELSE IF log = 0 THEN getNumDigitsStep(st)
    ELSE Then(getNumDigitsLoop(st, log - 1), LAMBDA mid : getNumDigitsLoop(mid, log - 1))

getNumDigits(val) == getNumDigitsLoop(<<val, 0>>, MaxLoopLog)[2]

(***************************************************************************)
(* formatScaledUint256AsDecimalString(v, scalingFactor)                    *)
(***************************************************************************)
\* A variant whose padding is one zero too long (the -1 of line 666 left out).
formatScaledUint256AsDecimalStringLongPad(v, scalingFactor) ==
    Then(BigDivMod(v, scalingFactor), LAMBDA qr :
    Then(getNumDigits(scalingFactor), LAMBDA scalingFactorDigits :
    Then(SprintfD(qr[2]), LAMBDA decimalPartAsString :
         SprintfD(qr[1]) \o <<".">> \o
            (IF qr[2] # Zero /\ Len(decimalPartAsString) # scalingFactorDigits
             THEN RepeatZero(scalingFactorDigits - Len(decimalPartAsString))
                     \o decimalPartAsString
             ELSE decimalPartAsString))))

\* Variants: one that never pads the decimal part, one that also pads a zero
\* decimal part.
formatScaledUint256AsDecimalStringUnpadded(v, scalingFactor) ==
    Then(BigDivMod(v, scalingFactor), LAMBDA qr :
         SprintfD(qr[1]) \o <<".">> \o SprintfD(qr[2]))

formatScaledUint256AsDecimalStringPadsZero(v, scalingFactor) ==
    Then(BigDivMod(v, scalingFactor), LAMBDA qr :
    Then(getNumDigits(scalingFactor), LAMBDA scalingFactorDigits :
    Then(SprintfD(qr[2]), LAMBDA decimalPartAsString :
         SprintfD(qr[1]) \o <<".">> \o
            (IF Len(decimalPartAsString) # scalingFactorDigits
             THEN RepeatZero(scalingFactorDigits - Len(decimalPartAsString) - 1)
                     \o decimalPartAsString
             ELSE decimalPartAsString))))

formatScaledUint256AsDecimalString(v, scalingFactor) ==
    Then(BigDivMod(v, scalingFactor), LAMBDA qr :
    Then(getNumDigits(scalingFactor), LAMBDA scalingFactorDigits :
    Then(SprintfD(qr[2]), LAMBDA decimalPartAsString :
         SprintfD(qr[1]) \o <<".">> \o
            (IF qr[2] # Zero /\ Len(decimalPartAsString) # scalingFactorDigits
             THEN RepeatZero(scalingFactorDigits - Len(decimalPartAsString) - 1)
                     \o decimalPartAsString
             ELSE decimalPartAsString))))

(***************************************************************************)
(* isCoinToFillDESO, in routes/dao_coin_exchange.go and in the older copy  *)
(* whose native-coin sentinel is the empty string.                         *)
(***************************************************************************)
DESOCoinIdentifierString == "DESO"
LegacyDESOCoinIdentifier == ""
DAOCoinLimitOrderOperationTypeStringASK == "ASK"
DAOCoinLimitOrderOperationTypeStringBID == "BID"

\* A variant that does not look at the operation type.
isCoinToFillDESOAnyOperation(buying, selling, operationTypeString) ==
    \/ buying = DESOCoinIdentifierString
    \/ selling = DESOCoinIdentifierString

\* A variant with the two operation types exchanged.
isCoinToFillDESOSwapped(buying, selling, operationTypeString) ==
    \/ buying = DESOCoinIdentifierString
         /\ operationTypeString = DAOCoinLimitOrderOperationTypeStringASK
    \/ selling = DESOCoinIdentifierString
         /\ operationTypeString = DAOCoinLimitOrderOperationTypeStringBID

isCoinToFillDESO(buying, selling, operationTypeString) ==
    \/ buying = DESOCoinIdentifierString
         /\ operationTypeString = DAOCoinLimitOrderOperationTypeStringBID
    \/ selling = DESOCoinIdentifierString
         /\ operationTypeString = DAOCoinLimitOrderOperationTypeStringASK

isCoinToFillDESOLegacy(buying, selling, operationTypeString) ==
    \/ buying = LegacyDESOCoinIdentifier
         /\ operationTypeString = DAOCoinLimitOrderOperationTypeStringBID
    \/ selling = LegacyDESOCoinIdentifier
         /\ operationTypeString = DAOCoinLimitOrderOperationTypeStringASK

(***************************************************************************)
(* Write path: price or float to the scaled exchange rate of an order.     *)
(* A result is [err, val, rate]: the Go error ("" for nil), the returned   *)
(* *uint256.Int, and the local rawScaledExchangeRate when it was reached.  *)
(***************************************************************************)
DAOCoinLimitOrderOperationTypeASK == 1
DAOCoinLimitOrderOperationTypeBID == 2

ErrNil == ""
ErrParse == "lib.CalculateScaledExchangeRateFromString failed"
ErrTooSmall == "too small to produce a scaled exchange rate"
ErrOverflow == "Overflow when converting to a scaled exchange rate"

Fail(err, rate) == [err |-> err, val |-> NilInt, rate |-> rate]
Return(val, rate) == [err |-> ErrNil, val |-> val, rate |-> rate]

\* A variant whose numerator is 10^72, as the name of the local oneE72 reads.
InvertPriceForASKOneE72(rawScaledPRice, operationType) ==
    IF operationType = DAOCoinLimitOrderOperationTypeASK
    THEN Then(Pow10(72), LAMBDA oneE72 :
              FromBig(BigDiv(oneE72, rawScaledPRice)))
    ELSE [overflow |-> FALSE, val |-> rawScaledPRice]

\* A variant that inverts for BID instead of ASK, as the comment on line 353 reads.
InvertPriceForBID(rawScaledPRice, operationType) ==
    IF operationType = DAOCoinLimitOrderOperationTypeBID
    THEN Then(BigMul(OneE38, OneE38), LAMBDA oneE72 :
              FromBig(BigDiv(oneE72, rawScaledPRice)))
    ELSE [overflow |-> FALSE, val |-> rawScaledPRice]

\* Lines 355-366: the rate after the ASK inversion, as FromBig reports it.
InvertPriceForASK(rawScaledPRice, operationType) ==
    IF operationType = DAOCoinLimitOrderOperationTypeASK
    THEN Then(BigMul(OneE38, OneE38), LAMBDA oneE72 :
              FromBig(BigDiv(oneE72, rawScaledPRice)))
    ELSE [overflow |-> FALSE, val |-> rawScaledPRice]

\* A variant that returns the quotient without the zero check of line 379.
CalculateScaledExchangeRateFromPriceStringZeroQuotient(buying, selling, parsed, operationType) ==
    IF parsed.err # ErrNil THEN Fail(parsed.err, NilInt)
    ELSE IF IsZero(parsed.val) THEN Fail(ErrTooSmall, NilInt)
    ELSE Then(InvertPriceForASK(parsed.val, operationType), LAMBDA inverted :
         IF inverted.overflow THEN Fail(ErrOverflow, NilInt)
         ELSE IF buying = DESOCoinIdentifierString
         THEN Then(MulOverflow(inverted.val, getDESOToDAOCoinBaseUnitsScalingFactor), LAMBDA product :
                   IF product.overflow THEN Fail(ErrOverflow, inverted.val)
                   ELSE Return(product.val, inverted.val))
         ELSE IF selling = DESOCoinIdentifierString
         THEN Return(Uint256Div(inverted.val, getDESOToDAOCoinBaseUnitsScalingFactor), inverted.val)
         ELSE Return(inverted.val, inverted.val))

CalculateScaledExchangeRateFromPriceString(buying, selling, parsed, operationType) ==
    IF parsed.err # ErrNil THEN Fail(parsed.err, NilInt)
    ELSE IF IsZero(parsed.val) THEN Fail(ErrTooSmall, NilInt)
    ELSE Then(InvertPriceForASK(parsed.val, operationType), LAMBDA inverted :
         IF inverted.overflow THEN Fail(ErrOverflow, NilInt)
         ELSE IF buying = DESOCoinIdentifierString
         THEN Then(MulOverflow(inverted.val, getDESOToDAOCoinBaseUnitsScalingFactor), LAMBDA product :
                   IF product.overflow THEN Fail(ErrOverflow, inverted.val)
                   ELSE Return(product.val, inverted.val))
         ELSE IF selling = DESOCoinIdentifierString
         THEN Then(Uint256Div(inverted.val, getDESOToDAOCoinBaseUnitsScalingFactor), LAMBDA quotient :
                   IF IsZero(quotient) THEN Fail(ErrTooSmall, inverted.val)
                   ELSE Return(quotient, inverted.val))
         ELSE Return(inverted.val, inverted.val))

CalculateScaledExchangeRateFromFloat(buying, selling, parsed) ==
    IF parsed.err # ErrNil THEN Fail(parsed.err, NilInt)
    ELSE IF IsZero(parsed.val) THEN Fail(ErrTooSmall, NilInt)
    ELSE IF buying = DESOCoinIdentifierString
    THEN Then(MulOverflow(parsed.val, getDESOToDAOCoinBaseUnitsScalingFactor), LAMBDA product :
              IF product.overflow THEN Fail(ErrOverflow, parsed.val)
              ELSE Return(product.val, parsed.val))
    ELSE IF selling = DESOCoinIdentifierString
    THEN Then(Uint256Div(parsed.val, getDESOToDAOCoinBaseUnitsScalingFactor), LAMBDA quotient :
              IF IsZero(quotient) THEN Fail(ErrTooSmall, parsed.val)
              ELSE Return(quotient, parsed.val))
    ELSE Return(parsed.val, parsed.val)

\* The older copy: no zero check after the parse, sentinel "".
CalculateScaledExchangeRate(buying, selling, parsed) ==
    IF parsed.err # ErrNil THEN Fail(parsed.err, NilInt)
    ELSE IF buying = LegacyDESOCoinIdentifier
    THEN Then(MulOverflow(parsed.val, getDESOToDAOCoinBaseUnitsScalingFactor), LAMBDA product :
              IF product.overflow THEN Fail(ErrOverflow, parsed.val)
              ELSE Return(product.val, parsed.val))
    ELSE IF selling = LegacyDESOCoinIdentifier
    THEN Then(Uint256Div(parsed.val, getDESOToDAOCoinBaseUnitsScalingFactor), LAMBDA quotient :
              IF quotient = Zero THEN Fail(ErrTooSmall, parsed.val)
              ELSE Return(quotient, parsed.val))
    ELSE Return(parsed.val, parsed.val)

(***************************************************************************)
(* Read path: the stored scaled exchange rate of an order to its price.    *)
(***************************************************************************)
\* A variant that multiplies whenever the buying coin is not $DESO.
CalculateStringPriceFromScaledExchangeRateAlwaysScales(buying, selling, scaledValue, operationTypeString) ==
    formatScaledUint256AsDecimalString(
        IF buying = DESOCoinIdentifierString
        THEN BigDiv(scaledValue, getDESOToDAOCoinBaseUnitsScalingFactor)
        ELSE BigMul(scaledValue, getDESOToDAOCoinBaseUnitsScalingFactor),
        OneE38)

CalculateStringPriceFromScaledExchangeRate(buying, selling, scaledValue, operationTypeString) ==
    formatScaledUint256AsDecimalString(
        IF buying = DESOCoinIdentifierString
        THEN BigDiv(scaledValue, getDESOToDAOCoinBaseUnitsScalingFactor)
        ELSE IF selling = DESOCoinIdentifierString
        THEN BigMul(scaledValue, getDESOToDAOCoinBaseUnitsScalingFactor)
        ELSE scaledValue,
        OneE38)

(***************************************************************************)
(* CalculateExchangeRateAsFloat: the same denomination adjustment as the   *)
(* string price, then the decimal numeral str that strconv.ParseFloat      *)
(* turns into the returned float64.  The model returns str: the float is   *)
(* the float64 nearest to the number str denotes.                          *)
(***************************************************************************)
\* A variant with the two adjustments exchanged.
CalculateExchangeRateAsFloatSwapped(buying, selling, scaledValue) ==
    Then(IF buying = DESOCoinIdentifierString
         THEN BigMul(scaledValue, getDESOToDAOCoinBaseUnitsScalingFactor)
         ELSE IF selling = DESOCoinIdentifierString
         THEN BigDiv(scaledValue, getDESOToDAOCoinBaseUnitsScalingFactor)
         ELSE scaledValue, LAMBDA scaledValueAsBigInt :
    Then(BigDivMod(scaledValueAsBigInt, OneE38), LAMBDA qr :
         SprintfD(qr[1]) \o <<".">>
            \o RepeatZero(getNumDigits(OneE38) - getNumDigits(qr[2]) - 1)
            \o SprintfD(qr[2])))

CalculateExchangeRateAsFloat(buying, selling, scaledValue) ==
    Then(IF buying = DESOCoinIdentifierString
         THEN BigDiv(scaledValue, getDESOToDAOCoinBaseUnitsScalingFactor)
         ELSE IF selling = DESOCoinIdentifierString
         THEN BigMul(scaledValue, getDESOToDAOCoinBaseUnitsScalingFactor)
         ELSE scaledValue, LAMBDA scaledValueAsBigInt :
    Then(BigDivMod(scaledValueAsBigInt, OneE38), LAMBDA qr :
         SprintfD(qr[1]) \o <<".">>
            \o RepeatZero(getNumDigits(OneE38) - getNumDigits(qr[2]) - 1)
            \o SprintfD(qr[2])))

(***************************************************************************)
(* Decimal numerals: the number a decimal string denotes.                  *)
(***************************************************************************)
DigitOf(c) == CHOOSE d \in 0..9 : DigitChars[d + 1] = c
IsDigits(s) == Len(s) > 0 /\ \A i \in 1..Len(s) : \E d \in 0..9 : DigitChars[d + 1] = s[i]

\* The value of a digit string, leading zeros allowed.
DigitsValue(s) ==
    LET limbs == (Len(s) + 3) \div 4
        pad == 4 * limbs - Len(s)
        d(i) == IF i <= pad THEN 0 ELSE DigitOf(s[i - pad])
    IN Norm([j \in 1..limbs |->
                d(4 * j - 3) * 1000 + d(4 * j - 2) * 100 + d(4 * j - 1) * 10 + d(4 * j)])

Points(s) == {i \in 1..Len(s) : s[i] = "."}
WholePart(s) == SubSeq(s, 1, Only(Points(s)) - 1)
FractionPart(s) == SubSeq(s, Only(Points(s)) + 1, Len(s))
IsDecimalString(s) ==
    /\ Cardinality(Points(s)) = 1
    /\ IsDigits(WholePart(s))
    /\ IsDigits(FractionPart(s))
    /\ (Len(WholePart(s)) > 1 => WholePart(s)[1] # "0")

\* The value of decimal string s times 10^k, for a fraction of at most k digits.
ScaledValueOf(s, k) ==
    BigAdd(BigMul(DigitsValue(WholePart(s)), Pow10(k)),
           DigitsValue(FractionPart(s) \o [i \in 1..(k - Len(FractionPart(s))) |-> "0"]))

(***************************************************************************)
(* ParseDecimalToScaled: the decimal numeral S times 10^38, for a numeral  *)
(* with at most 38 fractional digits.  The parse itself is                 *)
(* lib.CalculateScaledExchangeRateFromString of the core library.          *)
(***************************************************************************)
ZeroChars(n) == [i \in 1..n |-> "0"]
HasPoint(s) == Points(s) # {}
ParseDecimalToScaled(s) ==
    IF HasPoint(s) THEN ScaledValueOf(s, 38) ELSE BigMul(DigitsValue(s), OneE38)

\* Decimal numerals without redundant leading zeros: wholes up to 10^38,
\* fractions of 1 to 38 digits with and without trailing zeros.
WholeStrings ==
    {<<"0">>, <<"1">>, <<"2">>, <<"3">>, <<"1">> \o ZeroChars(29), <<"1">> \o ZeroChars(38)}
FractionStrings ==
    {ZeroChars(z) : z \in {1, 2, 38}}
        \cup {[i \in 1..38 |-> "9"]}
        \cup {ZeroChars(n) \o <<d>> \o ZeroChars(z) :
                 n \in {0, 28, 37}, d \in {"1", "2", "3"}, z \in {0, 1}}
PriceStrings ==
    WholeStrings \cup {w \o <<".">> \o f : w \in WholeStrings, f \in FractionStrings}

(***************************************************************************)
(* CalculateQuantityToFillAsBaseUnits: the entered quantity, a decimal     *)
(* numeral, scaled to base units of the coin the quantity refers to.  The  *)
(* scaling is lib.ScaleFloatFormatStringToUint256 of the core library: the *)
(* numeral times the scaling factor, an error when it does not fit.        *)
(***************************************************************************)
ScaleFloatFormatStringToUint256(floatStr, scalingFactor) ==
    Then(IF HasPoint(floatStr)
         THEN BigAdd(BigMul(DigitsValue(WholePart(floatStr)), scalingFactor),
                     BigDiv(BigMul(DigitsValue(FractionPart(floatStr)), scalingFactor),
                            Pow10(Len(FractionPart(floatStr)))))
         ELSE BigMul(DigitsValue(floatStr), scalingFactor), LAMBDA scaled :
         IF BigCmp(scaled, MaxUint256) > 0 THEN Fail(ErrOverflow, NilInt)
         ELSE Return(scaled, NilInt))

calculateQuantityToFillAsDAOCoinBaseUnits(quantityToFill) ==
    ScaleFloatFormatStringToUint256(quantityToFill, BaseUnitsPerCoin)

calculateQuantityToFillAsDESONanos(quantityToFill) ==
    ScaleFloatFormatStringToUint256(quantityToFill, NanosPerUnit)

\* A variant with the two scaling factors exchanged.
CalculateQuantityToFillAsBaseUnitsSwapped(buying, selling, operationTypeString, quantityToFill) ==
    IF isCoinToFillDESO(buying, selling, operationTypeString)
    THEN calculateQuantityToFillAsDAOCoinBaseUnits(quantityToFill)
    ELSE calculateQuantityToFillAsDESONanos(quantityToFill)

CalculateQuantityToFillAsBaseUnits(buying, selling, operationTypeString, quantityToFill) ==
    IF isCoinToFillDESO(buying, selling, operationTypeString)
    THEN calculateQuantityToFillAsDESONanos(quantityToFill)
    ELSE calculateQuantityToFillAsDAOCoinBaseUnits(quantityToFill)

\* Entered quantities: numerals with at most 9 fractional digits.
QuantityStrings ==
    {s \in PriceStrings : HasPoint(s) => Len(FractionPart(s)) <= 9}
        \cup {<<"2", ".", "5">>}

(***************************************************************************)
(* Enum conversions.  A result is a record with the error and the value.   *)
(***************************************************************************)
ErrUnknownOperationType == "Unknown DAOCoinLimitOrderOperationType"
ErrUnknownOperationTypeString == "Unknown string value for DAOCoinLimitOrderOperationType"
ErrUnknownFillType == "Unknown DAO coin limit order fill type"

DAOCoinLimitOrderFillTypeGoodTillCancelled == "GOOD_TILL_CANCELLED"
DAOCoinLimitOrderFillTypeFillOrKill == "FILL_OR_KILL"
DAOCoinLimitOrderFillTypeImmediateOrCancel == "IMMEDIATE_OR_CANCEL"

\* The values of lib.DAOCoinLimitOrderFillType.
FillTypeGoodTillCancelled == 1
FillTypeImmediateOrCancel == 2
FillTypeFillOrKill == 3

orderOperationTypeToString(operationType) ==
    IF operationType = DAOCoinLimitOrderOperationTypeASK
    THEN [err |-> ErrNil, op |-> DAOCoinLimitOrderOperationTypeStringASK]
    ELSE IF operationType = DAOCoinLimitOrderOperationTypeBID
    THEN [err |-> ErrNil, op |-> DAOCoinLimitOrderOperationTypeStringBID]
    ELSE [err |-> ErrUnknownOperationType, op |-> ""]

\* A variant that takes every string other than ASK for BID.
orderOperationTypeToUint64DefaultsToBID(operationType) ==
    IF operationType = DAOCoinLimitOrderOperationTypeStringASK
    THEN [err |-> ErrNil, num |-> DAOCoinLimitOrderOperationTypeASK]
    ELSE [err |-> ErrNil, num |-> DAOCoinLimitOrderOperationTypeBID]

orderOperationTypeToUint64(operationType) ==
    IF operationType = DAOCoinLimitOrderOperationTypeStringASK
    THEN [err |-> ErrNil, num |-> DAOCoinLimitOrderOperationTypeASK]
    ELSE IF operationType = DAOCoinLimitOrderOperationTypeStringBID
    THEN [err |-> ErrNil, num |-> DAOCoinLimitOrderOperationTypeBID]
    ELSE [err |-> ErrUnknownOperationTypeString, num |-> 0]

orderFillTypeToUint64(fillType) ==
    CASE fillType = DAOCoinLimitOrderFillTypeGoodTillCancelled ->
            [err |-> ErrNil, num |-> FillTypeGoodTillCancelled]
      [] fillType = DAOCoinLimitOrderFillTypeFillOrKill ->
            [err |-> ErrNil, num |-> FillTypeFillOrKill]
      [] fillType = DAOCoinLimitOrderFillTypeImmediateOrCancel ->
            [err |-> ErrNil, num |-> FillTypeImmediateOrCancel]
      [] OTHER -> [err |-> ErrUnknownFillType, num |-> 0]

(***************************************************************************)
(* buildDAOCoinLimitOrderResponse and the quantity read path.  An order    *)
(* entry is a record of the fields the response is built from; the float   *)
(* fields of the response are the decimal numerals handed to ParseFloat.   *)
(***************************************************************************)
ErrParseFloat == "strconv.ParseFloat: invalid syntax"

\* A variant that formats with the unit of the other coin.
CalculateQuantityAsStringSwapped(buying, selling, operationTypeString, quantityToFillInBaseUnits) ==
    IF isCoinToFillDESO(buying, selling, operationTypeString)
    THEN formatScaledUint256AsDecimalString(quantityToFillInBaseUnits, BaseUnitsPerCoin)
    ELSE formatScaledUint256AsDecimalString(quantityToFillInBaseUnits, NanosPerUnit)

CalculateQuantityAsString(buying, selling, operationTypeString, quantityToFillInBaseUnits) ==
    IF isCoinToFillDESO(buying, selling, operationTypeString)
    THEN formatScaledUint256AsDecimalString(quantityToFillInBaseUnits, NanosPerUnit)
    ELSE formatScaledUint256AsDecimalString(quantityToFillInBaseUnits, BaseUnitsPerCoin)

\* A variant whose padding count is one less.
calculateQuantityToFillAsFloatWithScalingFactorShortPad(quantityAsScaledValue, scalingFactor) ==
    Then(BigDivMod(quantityAsScaledValue, scalingFactor), LAMBDA qr :
         SprintfD(qr[1]) \o <<".">>
            \o RepeatZero(getNumDigits(scalingFactor) - getNumDigits(qr[2]) - 2)
            \o SprintfD(qr[2]))

calculateQuantityToFillAsFloatWithScalingFactor(quantityAsScaledValue, scalingFactor) ==
    Then(BigDivMod(quantityAsScaledValue, scalingFactor), LAMBDA qr :
         SprintfD(qr[1]) \o <<".">>
            \o RepeatZero(getNumDigits(scalingFactor) - getNumDigits(qr[2]) - 1)
            \o SprintfD(qr[2]))

CalculateQuantityToFillAsFloat(buying, selling, operationTypeString, quantityToFillInBaseUnits) ==
    IF isCoinToFillDESO(buying, selling, operationTypeString)
    THEN calculateQuantityToFillAsFloatWithScalingFactor(quantityToFillInBaseUnits, NanosPerUnit)
    ELSE calculateQuantityToFillAsFloatWithScalingFactor(quantityToFillInBaseUnits, BaseUnitsPerCoin)

\* strconv.ParseFloat(str, 64) fails on text that is not a decimal numeral.
ParseFloatErr(str) ==
    IF /\ Cardinality(Points(str)) = 1
       /\ IsDigits(WholePart(str))
       /\ IsDigits(FractionPart(str))
    THEN ErrNil
    ELSE ErrParseFloat

NoOrderResponse ==
    [TransactorPublicKeyBase58Check |-> "",
     BuyingDAOCoinCreatorPublicKeyBase58Check |-> "",
     SellingDAOCoinCreatorPublicKeyBase58Check |-> "",
     Price |-> <<>>, Quantity |-> <<>>,
     ExchangeRateCoinsToSellPerCoinToBuy |-> <<>>, QuantityToFill |-> <<>>,
     OperationType |-> "", OrderID |-> 0]

BuildFailed(err) == [err |-> err, response |-> NoOrderResponse]

buildDAOCoinLimitOrderResponse(transactor, buying, selling, order) ==
    Then(orderOperationTypeToString(order.OperationType), LAMBDA converted :
    IF converted.err # ErrNil THEN BuildFailed(converted.err)
    ELSE
    Then(CalculateStringPriceFromScaledExchangeRate(
            buying, selling, order.ScaledExchangeRateCoinsToSellPerCoinToBuy,
            converted.op), LAMBDA price :
    Then(CalculateQuantityAsString(
            buying, selling, converted.op, order.QuantityToFillInBaseUnits), LAMBDA quantity :
    Then(CalculateExchangeRateAsFloat(
            buying, selling, order.ScaledExchangeRateCoinsToSellPerCoinToBuy), LAMBDA exchangeRate :
    IF ParseFloatErr(exchangeRate) # ErrNil THEN BuildFailed(ParseFloatErr(exchangeRate))
    ELSE
    Then(CalculateQuantityToFillAsFloat(
            buying, selling, converted.op, order.QuantityToFillInBaseUnits), LAMBDA quantityToFill :
    IF ParseFloatErr(quantityToFill) # ErrNil THEN BuildFailed(ParseFloatErr(quantityToFill))
    ELSE
        [err |-> ErrNil,
         response |->
            [TransactorPublicKeyBase58Check |-> transactor,
             BuyingDAOCoinCreatorPublicKeyBase58Check |-> buying,
             SellingDAOCoinCreatorPublicKeyBase58Check |-> selling,
             Price |-> price, Quantity |-> quantity,
             ExchangeRateCoinsToSellPerCoinToBuy |-> exchangeRate,
             QuantityToFill |-> quantityToFill,
             OperationType |-> converted.op,
             OrderID |-> order.OrderID]])))))


(***************************************************************************)
(* The listing read paths.  Both builders loop over the orders, build the  *)
(* response of each and append it unless the build failed.                 *)
(***************************************************************************)
\* A variant in which a failed build empties the list.
AppendResponseFailsListing(responses, built) ==
    IF built.err # ErrNil THEN <<>> ELSE Append(responses, built.response)

\* if err != nil { continue }; responses = append(responses, *response)
AppendResponse(responses, built) ==
    IF built.err # ErrNil THEN responses ELSE Append(responses, built.response)

\* glog.Errorf in buildDAOCoinLimitOrderResponsesForTransactor
LogSkipped(logged, built, order) ==
    IF built.err # ErrNil THEN Append(logged, order.OrderID) ELSE logged

CoinPairBuilder == "buildDAOCoinLimitOrderResponsesFromEntriesForCoinPair"
TransactorBuilder == "buildDAOCoinLimitOrderResponsesForTransactor"
GetOrdersHandler == "GetDAOCoinLimitOrders"

(***************************************************************************)
(* Memory.  The integers an order and the lib constants hold are cells     *)
(* that a call could write through a pointer.  A *big.Int local of a call  *)
(* is a reference: "local" names the call's own cell, "order" the cell of  *)
(* the order's stored rate.  The in-place operations z.Div(z, y) and       *)
(* z.Mul(z, y) write the cell z refers to.                                 *)
(***************************************************************************)
\* A variant that hands out the uint256's own storage.
ToBigAliases(ref) == ref

\* scaledValue.ToBig(): a new big.Int holding a copy of the value.
ToBig(ref) == "local"

\* Lines 428-432 and 446-450: the denomination adjustment of a stored rate.
AdjustScaledValue(buying, selling, scaledValueAsBigInt) ==
    IF buying = DESOCoinIdentifierString
    THEN BigDiv(scaledValueAsBigInt, getDESOToDAOCoinBaseUnitsScalingFactor)
    ELSE IF selling = DESOCoinIdentifierString
    THEN BigMul(scaledValueAsBigInt, getDESOToDAOCoinBaseUnitsScalingFactor)
    ELSE scaledValueAsBigInt

\* Lines 452-458: the numeral built from the adjusted rate.
FloatNumeral(scaledValueAsBigInt, oneE38AsBigInt) ==
    Then(BigDivMod(scaledValueAsBigInt, oneE38AsBigInt), LAMBDA qr :
         SprintfD(qr[1]) \o <<".">>
            \o RepeatZero(getNumDigits(oneE38AsBigInt) - getNumDigits(qr[2]) - 1)
            \o SprintfD(qr[2]))

(***************************************************************************)
(* formatFloatAsString.  A float64 f >= 0 is given by its exact decimal    *)
(* numeral "W.F"; the inputs are floats whose exact numeral is short.      *)
(***************************************************************************)
supportedPrecisionDigits == 15
DefaultPrecision == 6

\* big.NewFloat(0).SetFloat64(f).Int(nil): the integer part of f.
IntegerPart(f) == DigitsValue(WholePart(f))

\* v as exactly k digits.
PadDigits(v, k) ==
    IF k = 0 THEN <<>>
    ELSE Then(SprintfD(v), LAMBDA d : ZeroChars(k - Len(d)) \o d)

\* f times 10^k rounded to the nearest integer, ties to even.
RoundScaled(f, k) ==
    IF Len(FractionPart(f)) <= k THEN ScaledValueOf(f, k)
    ELSE Then(BigDivMod(ScaledValueOf(f, Len(FractionPart(f))),
                        Pow10(Len(FractionPart(f)) - k)), LAMBDA qr :
         Then(BigCmp(BigMulSmall(qr[2], 2), Pow10(Len(FractionPart(f)) - k)), LAMBDA half :
              IF half > 0 \/ (half = 0 /\ BigMod(qr[1], <<2>>) # Zero)
              THEN BigAdd(qr[1], <<1>>)
              ELSE qr[1]))

\* fmt.Sprintf with the verb %.kf
SprintfFixed(f, k) ==
    Then(BigDivMod(RoundScaled(f, k), Pow10(k)), LAMBDA qr :
         IF k = 0 THEN SprintfD(qr[1])
         ELSE SprintfD(qr[1]) \o <<".">> \o PadDigits(qr[2], k))

formatFloatAsString(f) ==
    Then(IntegerPart(f), LAMBDA fAsBigInt :
    Then(getNumDigits(fAsBigInt), LAMBDA numWholeNumberDigits :
         IF numWholeNumberDigits <= supportedPrecisionDigits
         THEN SprintfFixed(f, supportedPrecisionDigits - numWholeNumberDigits)
         ELSE Then(Pow10(numWholeNumberDigits - supportedPrecisionDigits),
                   LAMBDA divisorToDropDigits :
                   SprintfD(BigMul(BigDiv(fAsBigInt, divisorToDropDigits),
                                   divisorToDropDigits)) \o <<".", "0">>)))

\* int64(f) in the older copy: the integer part when it fits; for a float of
\* 2^63 or more the result of the conversion depends on the platform.
MaxInt64 == BigSub(BigPow2(63), <<1>>)
Int64Conversions(f) ==
    IF BigCmp(IntegerPart(f), MaxInt64) <= 0
    THEN {IntegerPart(f)}
    ELSE {Zero, MaxInt64, Negative(BigPow2(63))}

\* The older copy, for the value int64(f) took.
formatFloatAsStringLegacy(f, asInt64) ==
    Then(getNumDigits(asInt64), LAMBDA numWholeNumberDigits :
         IF numWholeNumberDigits < supportedPrecisionDigits
         THEN SprintfFixed(f, supportedPrecisionDigits - numWholeNumberDigits)
         ELSE SprintfFixed(f, DefaultPrecision))

\* float64 values: below and above 10^15, with and without a fraction.
FloatInputs ==
    {<<"0", ".", "0">>,
     <<"0", ".", "5">>,
     <<"2", ".", "5">>,
     <<"0", ".", "0", "0", "0", "9", "7", "6", "5", "6", "2", "5">>,
     <<"1", "2", "3", "4", "5", "6", "7", "8", "9", "0", "1", "2", ".", "0", "0", "0", "9", "7", "6", "5", "6", "2", "5">>,
     <<"1", "2", "3", ".", "2", "5">>,
     <<"1", "2", "3", "4", "5", "6", "7", "8", "9", "0", "1", "2", "3", "4", "5", ".", "0">>,
     <<"1", "2", "3", "4", "5", "6", "7", "8", "9", "0", "1", "2", "3", "4", "5", "6", ".", "0">>,
     <<"1", "2", "3", "4", "5", "6", "7", "8", "9", "0", "1", "2", "3", "4", "5", "6", ".", "5">>,
     <<"9", "9", "9", "9", "9", "9", "9", "9", "9", "9", "9", "9", "9", "9", "9", "8", ".", "0">>,
     <<"1", "0", "0", "0", "0", "0", "0", "0", "0", "0", "0", "0", "0", "0", "0", "0", "0", ".", "0">>,
     <<"1", "2", "3", "4", "5", "6", "7", "8", "9", "0", "1", "2", "3", "4", "5", "6", "8", "0", ".", "0">>,
     <<"1", "0", "0", "0", "0", "0", "0", "0", "0", "0", "0", "0", "0", "0", "0", "0", "0", "0", "0", "0", "0", "0", "0", ".", "0">>}

(***************************************************************************)
(* validateTransactorSellingCoinBalance.  A coin's PKID is modelled by the *)
(* coin's identifier; an open order by the coins it buys and sells and the *)
(* base units it still sells (order.BaseUnitsToSellUint256()).  A balance  *)
(* that cannot be fetched is NilInt.                                       *)
(***************************************************************************)
ErrBalance == "Error getting transactor balance"
ErrSellingQuantity == "Error calculating new order selling quantity"
ErrInvalidOperationType == "Invalid operation type"
ErrAdding == "Error adding open order selling quantity"
ErrInsufficient == "Insufficient balance to open order"

Computed(err, val) == [err |-> err, val |-> val]

\* lib.ComputeBaseUnitsToSellUint256: rate * quantity / 10^38, an error when
\* the result does not fit in 256 bits.
ComputeBaseUnitsToSellUint256(scaledExchangeRateCoinsToSellPerCoinToBuy, quantityToFillInBaseUnits) ==
    Then(BigDiv(BigMul(scaledExchangeRateCoinsToSellPerCoinToBuy, quantityToFillInBaseUnits),
                OneE38), LAMBDA selling :
         IF BigCmp(selling, MaxUint256) > 0 THEN Computed(ErrSellingQuantity, NilInt)
         ELSE Computed(ErrNil, selling))

\* lib.SafeUint256().Add
SafeUint256Add(x, y) ==
    Then(BigAdd(x, y), LAMBDA sum :
         IF BigCmp(sum, MaxUint256) > 0 THEN Computed(ErrAdding, NilInt)
         ELSE Computed(ErrNil, sum))

\* A variant that counts every open order selling the coin.
CountsOpenOrderAnyBuyingCoin(buyingCoinPKID, sellingCoinPKID, order) ==
    sellingCoinPKID = order.SellingDAOCoinCreatorPKID

\* Lines 802-803: the open orders that are added to the total.
CountsOpenOrder(buyingCoinPKID, sellingCoinPKID, order) ==
    /\ buyingCoinPKID = order.BuyingDAOCoinCreatorPKID
    /\ sellingCoinPKID = order.SellingDAOCoinCreatorPKID

\* Lines 801-816: the loop over the open orders, from order i on.
RECURSIVE AddOpenOrders(_, _, _, _, _)
AddOpenOrders(buyingCoinPKID, sellingCoinPKID, orders, i, totalSellingBaseUnits) ==
    IF i > Len(orders) THEN Computed(ErrNil, totalSellingBaseUnits)
    ELSE IF ~CountsOpenOrder(buyingCoinPKID, sellingCoinPKID, orders[i])
    THEN AddOpenOrders(buyingCoinPKID, sellingCoinPKID, orders, i + 1, totalSellingBaseUnits)
    ELSE Then(SafeUint256Add(totalSellingBaseUnits, orders[i].BaseUnitsToSell), LAMBDA sum :
         IF sum.err # ErrNil THEN sum
         ELSE AddOpenOrders(buyingCoinPKID, sellingCoinPKID, orders, i + 1, sum.val))

\* Lines 787-798: the selling quantity of the new order.
NewOrderSellingBaseUnits(operationType, scaledExchangeRateCoinsToSellPerCoinToBuy, quantityToFillInBaseUnits) ==
    IF operationType = DAOCoinLimitOrderOperationTypeStringASK
    THEN Computed(ErrNil, quantityToFillInBaseUnits)
    ELSE IF operationType = DAOCoinLimitOrderOperationTypeStringBID
    THEN ComputeBaseUnitsToSellUint256(
            scaledExchangeRateCoinsToSellPerCoinToBuy, quantityToFillInBaseUnits)
    ELSE Computed(ErrInvalidOperationType, NilInt)

\* The error validateTransactorSellingCoinBalance returns, ErrNil for none.
validateTransactorSellingCoinBalance(buying, selling, operationType, scaledExchangeRateCoinsToSellPerCoinToBuy, quantityToFillInBaseUnits, balance, orders) ==
    IF balance = NilInt THEN ErrBalance
    ELSE
    Then(NewOrderSellingBaseUnits(operationType,
            scaledExchangeRateCoinsToSellPerCoinToBuy, quantityToFillInBaseUnits),
         LAMBDA newOrder :
    IF newOrder.err # ErrNil THEN newOrder.err
    ELSE
    Then(AddOpenOrders(buying, selling, orders, 1, newOrder.val), LAMBDA total :
    IF total.err # ErrNil THEN total.err
    ELSE IF BigCmp(balance, total.val) < 0 THEN ErrInsufficient
    ELSE ErrNil))

(***************************************************************************)
(* Messages and access groups.  A byte array is a sequence of bytes, a key *)
(* name the bytes of its string ([]byte(accessGroupKeyName)); a base58     *)
(* string is a TLA+ string.  The core library's helpers are modelled by    *)
(* what the source says of them: Base58CheckDecode by a table of strings,  *)
(* a valid public key by its compressed-key prefix byte, a group key name  *)
(* by its bytes padded with zeros, and the character limits of a key name  *)
(* (whose values are the library's) as an input of each call.              *)
(***************************************************************************)
NilBytes == <<-1>>
ErrDecoding == "Problem decoding base58 public key"
ErrValidating == "Problem validating base58 public key"
ErrValidatingGroup == "Problem validating access group owner public key and access group key name"
ErrSameParty == "Dm sender and recipient cannot be the same"
ErrSender == "Problem validating sender base58 public key"
ErrRecipient == "Problem validating recipient base58 public key"
ErrCreating == "Problem creating transaction"
ErrThreads == "Problem getting access group IDs of public key"

Decoded(bytes, err) == [bytes |-> bytes, err |-> err]

\* lib.Base58CheckDecode on the strings a request may carry.
Base58CheckDecode(publicKeyBase58Check) ==
    CASE publicKeyBase58Check = "BC1YLAlice" -> Decoded(<<2, 1>>, ErrNil)
      [] publicKeyBase58Check = "BC1YLBob" -> Decoded(<<3, 2>>, ErrNil)
      [] publicKeyBase58Check = "BC1YLGroupA" -> Decoded(<<2, 3>>, ErrNil)
      [] publicKeyBase58Check = "BC1YLGroupB" -> Decoded(<<3, 4>>, ErrNil)
      [] publicKeyBase58Check = "BC1YLNotAKey" -> Decoded(<<9>>, ErrNil)
      [] OTHER -> Decoded(NilBytes, ErrDecoding)

\* lib.IsByteArrayValidPublicKey: ErrNil for a compressed public key.
IsByteArrayValidPublicKey(publicKeyBytes) ==
    IF publicKeyBytes # <<>> /\ publicKeyBytes[1] \in {2, 3} THEN ErrNil
    ELSE ErrValidating

Base58DecodeAndValidatePublickey(publicKeyBase58Check) ==
    Then(Base58CheckDecode(publicKeyBase58Check), LAMBDA decoded :
         IF decoded.err # ErrNil THEN Decoded(NilBytes, ErrDecoding)
         ELSE IF IsByteArrayValidPublicKey(decoded.bytes) # ErrNil
         THEN Decoded(NilBytes, ErrValidating)
         ELSE Decoded(decoded.bytes, ErrNil))

\* The length of a lib.GroupKeyName.
GroupKeyNameLen == 4

\* lib.NewGroupKeyName: the bytes of the name, filled up with zeros.
NewGroupKeyName(groupKeyName) ==
    [i \in 1..GroupKeyNameLen |->
        IF i <= Len(groupKeyName) THEN groupKeyName[i] ELSE 0]

\* lib.BaseGroupKeyName: all zeros.
BaseGroupKeyName == NewGroupKeyName(<<>>)

EqualGroupKeyName(a, b) == a = b

\* lib.ValidateAccessGroupPublicKeyAndName: the first argument is a valid
\* public key and the key name has between Min and Max characters.
LibValidateAccessGroupPublicKeyAndName(accessGroupOwnerPublicKey, keyName, limits) ==
    IF IsByteArrayValidPublicKey(accessGroupOwnerPublicKey) # ErrNil THEN ErrValidating
    ELSE IF Len(keyName) < limits.min \/ Len(keyName) > limits.max THEN ErrValidating
    ELSE ErrNil

Validated(publicKeyBytes, accessGroupKeyNameBytes, err) ==
    [publicKeyBytes |-> publicKeyBytes,
     accessGroupKeyNameBytes |-> accessGroupKeyNameBytes, err |-> err]

\* A variant that hands the decoded owner key to the library's validation.
ValidateAccessGroupPublicKeyAndNameOwnerKey(publicKeyBase58Check, accessGroupKeyName, limits) ==
    Then(Base58CheckDecode(publicKeyBase58Check), LAMBDA decoded :
         IF decoded.err # ErrNil THEN Validated(NilBytes, NilBytes, ErrDecoding)
         ELSE IF LibValidateAccessGroupPublicKeyAndName(
                     decoded.bytes, accessGroupKeyName, limits) # ErrNil
         THEN Validated(NilBytes, NilBytes, ErrValidatingGroup)
         ELSE IF EqualGroupKeyName(NewGroupKeyName(accessGroupKeyName), BaseGroupKeyName)
         THEN Validated(decoded.bytes, accessGroupKeyName, ErrNil)
         ELSE Validated(decoded.bytes, accessGroupKeyName, ErrNil))

\* ValidateAccessGroupPublicKeyAndName.  Line 100 hands the key name to the
\* library as the public key too.  At lines 108-112 the error is built and
\* dropped, and the bare return yields the named results as they stand: the
\* decoded key, the name bytes and the nil error of line 100.
ValidateAccessGroupPublicKeyAndName(publicKeyBase58Check, accessGroupKeyName, limits) ==
    Then(Base58CheckDecode(publicKeyBase58Check), LAMBDA decoded :
         IF decoded.err # ErrNil THEN Validated(NilBytes, NilBytes, ErrDecoding)
         ELSE IF LibValidateAccessGroupPublicKeyAndName(
                     accessGroupKeyName, accessGroupKeyName, limits) # ErrNil
         THEN Validated(NilBytes, NilBytes, ErrValidatingGroup)
         ELSE IF EqualGroupKeyName(NewGroupKeyName(accessGroupKeyName), BaseGroupKeyName)
         THEN Validated(decoded.bytes, accessGroupKeyName, ErrNil)
         ELSE Validated(decoded.bytes, accessGroupKeyName, ErrNil))

NoTxn == [type |-> ""]

Sent(err, txn) == [err |-> err, txn |-> txn]

\* fes.blockchain.CreateNewMessageTxn: the arguments the transaction is
\* built from, or the error of the construction.
CreateNewMessageTxn(senderOwner, senderKeyName, senderAccessGroupPk, recipientOwner, recipientKeyName, recipientAccessGroupPk, type, later) ==
    IF later # ErrNil THEN Sent(later, NoTxn)
    ELSE Sent(ErrNil,
              [type |-> type,
               SenderAccessGroupOwnerPublicKey |-> senderOwner,
               SenderAccessGroupKeyName |-> NewGroupKeyName(senderKeyName),
               SenderAccessGroupPublicKey |-> senderAccessGroupPk,
               RecipientAccessGroupOwnerPublicKey |-> recipientOwner,
               RecipientAccessGroupKeyName |-> NewGroupKeyName(recipientKeyName),
               RecipientAccessGroupPublicKey |-> recipientAccessGroupPk])

\* SendDmMessage and SendGroupChatMessage, which differ in the message type.
\* later is the error of the steps after validation (fees, extra data,
\* construction), ErrNil for none.
SendMessage(requestData, type, limits, later) ==
    Then(ValidateAccessGroupPublicKeyAndName(
             requestData.SenderAccessGroupOwnerPublicKeyBase58Check,
             requestData.SenderAccessGroupKeyName, limits), LAMBDA sender :
    IF sender.err # ErrNil THEN Sent(sender.err, NoTxn)
    ELSE
    Then(ValidateAccessGroupPublicKeyAndName(
             requestData.RecipientAccessGroupOwnerPublicKeyBase58Check,
             requestData.RecipientAccessGroupKeyName, limits), LAMBDA recipient :
    IF recipient.err # ErrNil THEN Sent(recipient.err, NoTxn)
    ELSE IF sender.publicKeyBytes = recipient.publicKeyBytes THEN Sent(ErrSameParty, NoTxn)
    ELSE
    Then(Base58DecodeAndValidatePublickey(
             requestData.SenderAccessGroupPublicKeyBase58Check),
         LAMBDA senderAccessGroupPkbytes :
    IF senderAccessGroupPkbytes.err # ErrNil THEN Sent(ErrSender, NoTxn)
    ELSE
    Then(Base58DecodeAndValidatePublickey(
             requestData.SenderAccessGroupPublicKeyBase58Check),
         LAMBDA recipientAccessGroupPkbytes :
    IF recipientAccessGroupPkbytes.err # ErrNil THEN Sent(ErrRecipient, NoTxn)
    ELSE CreateNewMessageTxn(
             sender.publicKeyBytes, sender.accessGroupKeyNameBytes,
             senderAccessGroupPkbytes.bytes,
             recipient.publicKeyBytes, recipient.accessGroupKeyNameBytes,
             recipientAccessGroupPkbytes.bytes, type, later)))))

NewMessageTypeDm == "NewMessageTypeDm"
NewMessageTypeGroupChat == "NewMessageTypeGroupChat"

(***************************************************************************)
(* Threads ordered by their latest message.  A message entry is modelled   *)
(* by the thread it belongs to (standing for its sender and recipient      *)
(* fields) and its TimestampNanos; what the library finds for a thread is  *)
(* an input: an error, or the list of at most one entry.                   *)
(***************************************************************************)
ErrFetching == "Error fetching entries"

\* &lib.NewMessageEntry{}
EmptyMessageEntry == [thread |-> 0, TimestampNanos |-> 0]

Fetched(entries, err) == [entries |-> entries, err |-> err]

\* fetchLatestMessageFromSingleDmThread, fetchLatestMessageFromGroupChatThread
fetchLatestMessageFromSingleThread(fetched) ==
    IF fetched.err # ErrNil THEN Fetched(<<>>, fetched.err)
    ELSE IF Len(fetched.entries) > 0 THEN Fetched(<<fetched.entries[1]>>, ErrNil)
    ELSE Fetched(<<EmptyMessageEntry>>, ErrNil)

\* fetchLatestMessageFromDmThreads, fetchLatestMessageFromGroupChatThreads:
\* the loop from thread i on, latestMessageEntries being the entries so far.
RECURSIVE fetchLatestMessageFromThreads(_, _, _)
fetchLatestMessageFromThreads(threads, i, latestMessageEntries) ==
    IF i > Len(threads) THEN Fetched(latestMessageEntries, ErrNil)
    ELSE Then(fetchLatestMessageFromSingleThread(threads[i]), LAMBDA latest :
         IF latest.err # ErrNil THEN Fetched(<<>>, latest.err)
         ELSE fetchLatestMessageFromThreads(
                  threads, i + 1, latestMessageEntries \o latest.entries))

\* A comparison that puts the older message first.
OlderFirst(a, b) == a.TimestampNanos < b.TimestampNanos

\* The less function given to sort.Slice.
NewerFirst(a, b) == a.TimestampNanos > b.TimestampNanos

\* sort.Slice is not stable: every arrangement of the entries in which no
\* entry is less than one before it.
SortSlice(entries) ==
    {sorted \in {[i \in 1..Len(entries) |-> entries[p[i]]] :
                    p \in Permutations(1..Len(entries))} :
        \A i, j \in 1..Len(entries) : i < j => ~NewerFirst(sorted[j], sorted[i])}

\* The DmThread / GroupChatThread built from an entry.
MessageThread(threadMsg) ==
    [Info |-> threadMsg.thread,
     MessageInfo |-> [TimestampNanos |-> threadMsg.TimestampNanos]]

ThreadsResponse(err, threads) == [err |-> err, threads |-> threads]

\* The answers GetUserDmThreadsOrderedByTimeStamp and
\* GetUserGroupChatThreadsOrderedByTimestamp may give.
GetUserThreadsOrderedByTimestamp(requestData, threadsErr, threads) ==
    IF Base58CheckDecode(requestData.OwnerPublicKeyBase58Check).err # ErrNil
    THEN {ThreadsResponse(ErrDecoding, <<>>)}
    ELSE IF threadsErr # ErrNil THEN {ThreadsResponse(ErrThreads, <<>>)}
    ELSE Then(fetchLatestMessageFromThreads(threads, 1, <<>>), LAMBDA latest :
         IF latest.err # ErrNil THEN {ThreadsResponse(ErrThreads, <<>>)}
         ELSE {ThreadsResponse(ErrNil,
                   [i \in 1..Len(sorted) |-> MessageThread(sorted[i])]) :
                   sorted \in SortSlice(latest.entries)})

(***************************************************************************)
(* Inputs.  Coins are the two native-coin sentinels and two DAO coin       *)
(* creator keys.  Raw scaled rates are m * 10^e and their neighbours for   *)
(* the exponents where the arithmetic changes behaviour, and the values    *)
(* around the limits of uint256.                                           *)
(***************************************************************************)
MaxMantissa == 3

Coins == {DESOCoinIdentifierString, LegacyDESOCoinIdentifier, "BC1YLCreatorA", "BC1YLCreatorB"}
OperationTypes == {DAOCoinLimitOrderOperationTypeASK, DAOCoinLimitOrderOperationTypeBID}
OperationTypeStrings ==
    {DAOCoinLimitOrderOperationTypeStringASK, DAOCoinLimitOrderOperationTypeStringBID}
\* DAOCoinLimitOrderOperationTypeString is a Go string: any text is a value of it.
AnyOperationTypeStrings == OperationTypeStrings \cup {"", "SELL"}

Exponents == {0, 9, 37, 38, 67, 76}
ScaledGrid == {BigMulSmall(Pow10(e), m) : m \in 1..MaxMantissa, e \in Exponents}
MaxRateBuyingDESO == BigDiv(MaxUint256, getDESOToDAOCoinBaseUnitsScalingFactor)
MinPriceBuyingDESO == BigDiv(BigMul(OneE38, OneE38), MaxRateBuyingDESO)
Uint256Limits ==
    {MaxUint256, MaxRateBuyingDESO, BigAdd(MaxRateBuyingDESO, <<1>>),
     MinPriceBuyingDESO, BigAdd(MinPriceBuyingDESO, <<1>>)}
RawScaledValues ==
    {v \in ScaledGrid \cup {BigAdd(g, <<1>>) : g \in ScaledGrid}
                       \cup {BigSub(g, <<1>>) : g \in ScaledGrid}
                       \cup Uint256Limits :
        BigCmp(v, MaxUint256) <= 0}

\* formatFloatAsString prints at most 15 fractional digits, so a float
\* parses to a multiple of 10^(38 - 15).
FloatFractionDigits == 15
FloatScaledValues ==
    {v \in RawScaledValues : BigMod(v, Pow10(38 - FloatFractionDigits)) = Zero}

\* Outcomes of lib.CalculateScaledExchangeRateFromString.
Parsed(v) == [err |-> ErrNil, val |-> v]
ParseFailure == [err |-> ErrParse, val |-> NilInt]
PriceParseResults == {Parsed(v) : v \in RawScaledValues} \cup {ParseFailure}
FloatParseResults == {Parsed(v) : v \in FloatScaledValues} \cup {ParseFailure}

ScalingFactors == {NanosPerUnit, BaseUnitsPerCoin, OneE38}

(***************************************************************************)
(* State: the call in progress and what it returns.  The caller makes one  *)
(* call at a time: a call is made when none is in progress, and its result *)
(* is held until the caller takes it.                                      *)
(***************************************************************************)
VARIABLES req, resp, listing, mem
vars == <<req, resp, listing, mem>>

Request(fn, buying, selling, operationType, operationTypeString, parsed, value, scalingFactor) ==
    [fn |-> fn, buying |-> buying, selling |-> selling,
     operationType |-> operationType, operationTypeString |-> operationTypeString,
     parsed |-> parsed, value |-> value, scalingFactor |-> scalingFactor,
     fillType |-> "", balance |-> NilInt, orders |-> <<>>]

RateResponse(r) ==
    [err |-> r.err, val |-> r.val, rate |-> r.rate, str |-> <<>>, flag |-> FALSE, num |-> 0, op |-> ""]
StringResponse(s) ==
    [err |-> ErrNil, val |-> NilInt, rate |-> NilInt, str |-> s, flag |-> FALSE, num |-> 0, op |-> ""]
BoolResponse(b) ==
    [err |-> ErrNil, val |-> NilInt, rate |-> NilInt, str |-> <<>>, flag |-> b, num |-> 0, op |-> ""]

NoParse == [err |-> ErrNil, val |-> NilInt]

NoListing ==
    [fn |-> "", transactor |-> "", buying |-> "", selling |-> "",
     orders |-> <<>>, index |-> 0, responses |-> <<>>, logged |-> <<>>,
     badRequest |-> FALSE, lookedUp |-> FALSE, done |-> FALSE]

\* The callers that build a response for the same order at the same time.
Callers == {1, 2}

NoCall ==
    [pc |-> "", ref |-> "", local |-> NilInt,
     Price |-> <<>>, Quantity |-> <<>>,
     ExchangeRateCoinsToSellPerCoinToBuy |-> <<>>, QuantityToFill |-> <<>>]

NoMem ==
    [active |-> FALSE, buying |-> "", selling |-> "", operationTypeString |-> "",
     stored |-> [rate |-> NilInt, quantity |-> NilInt],
     cells |-> [rate |-> NilInt, quantity |-> NilInt,
                OneE38 |-> NilInt, BaseUnitsPerCoin |-> NilInt],
     calls |-> [c \in Callers |-> NoCall]]

NoRequest == Request("", "", "", 0, "", NoParse, NilInt, NilInt)
NoResponse == BoolResponse(FALSE)
Idle == req = NoRequest

Init ==
    /\ req = NoRequest
    /\ resp = NoResponse
    /\ listing = NoListing
    /\ mem = NoMem

CallCalculateScaledExchangeRateFromPriceString ==
    /\ Idle
    /\ \E buying \in Coins, selling \in Coins, operationType \in OperationTypes,
          parsed \in PriceParseResults :
        /\ req' = Request("CalculateScaledExchangeRateFromPriceString", buying, selling,
                          operationType, "", parsed, NilInt, NilInt)
        /\ resp' = RateResponse(
                      CalculateScaledExchangeRateFromPriceString(buying, selling, parsed, operationType))
    /\ UNCHANGED <<listing, mem>>

CallCalculateScaledExchangeRateFromFloat ==
    /\ Idle
    /\ \E buying \in Coins, selling \in Coins, parsed \in FloatParseResults :
        /\ req' = Request("CalculateScaledExchangeRateFromFloat", buying, selling,
                          0, "", parsed, NilInt, NilInt)
        /\ resp' = RateResponse(CalculateScaledExchangeRateFromFloat(buying, selling, parsed))
    /\ UNCHANGED <<listing, mem>>

CallCalculateScaledExchangeRate ==
    /\ Idle
    /\ \E buying \in Coins, selling \in Coins, parsed \in FloatParseResults :
        /\ req' = Request("CalculateScaledExchangeRate", buying, selling,
                          0, "", parsed, NilInt, NilInt)
        /\ resp' = RateResponse(CalculateScaledExchangeRate(buying, selling, parsed))
    /\ UNCHANGED <<listing, mem>>

CallCalculateStringPriceFromScaledExchangeRate ==
    /\ Idle
    /\ \E buying \in Coins, selling \in Coins, operationTypeString \in OperationTypeStrings,
          scaledValue \in RawScaledValues :
        /\ req' = Request("CalculateStringPriceFromScaledExchangeRate", buying, selling,
                          0, operationTypeString, NoParse, scaledValue, NilInt)
        /\ resp' = StringResponse(
                      CalculateStringPriceFromScaledExchangeRate(
                          buying, selling, scaledValue, operationTypeString))
    /\ UNCHANGED <<listing, mem>>

CallFormatScaledUint256AsDecimalString ==
    /\ Idle
    /\ \E v \in RawScaledValues, scalingFactor \in ScalingFactors :
        /\ req' = Request("formatScaledUint256AsDecimalString", "", "",
                          0, "", NoParse, v, scalingFactor)
        /\ resp' = StringResponse(formatScaledUint256AsDecimalString(v, scalingFactor))
    /\ UNCHANGED <<listing, mem>>

CallIsCoinToFillDESO ==
    /\ Idle
    /\ \E buying \in Coins, selling \in Coins,
          operationTypeString \in AnyOperationTypeStrings :
        /\ req' = Request("isCoinToFillDESO", buying, selling,
                          0, operationTypeString, NoParse, NilInt, NilInt)
        /\ resp' = BoolResponse(isCoinToFillDESO(buying, selling, operationTypeString))
    /\ UNCHANGED <<listing, mem>>

CallIsCoinToFillDESOLegacy ==
    /\ Idle
    /\ \E buying \in Coins, selling \in Coins,
          operationTypeString \in AnyOperationTypeStrings :
        /\ req' = Request("isCoinToFillDESOLegacy", buying, selling,
                          0, operationTypeString, NoParse, NilInt, NilInt)
        /\ resp' = BoolResponse(isCoinToFillDESOLegacy(buying, selling, operationTypeString))
    /\ UNCHANGED <<listing, mem>>

CallCalculateExchangeRateAsFloat ==
    /\ Idle
    /\ \E buying \in Coins, selling \in Coins, scaledValue \in RawScaledValues :
        /\ req' = Request("CalculateExchangeRateAsFloat", buying, selling,
                          0, "", NoParse, scaledValue, NilInt)
        /\ resp' = StringResponse(CalculateExchangeRateAsFloat(buying, selling, scaledValue))
    /\ UNCHANGED <<listing, mem>>

CallCalculateQuantityToFillAsBaseUnits ==
    /\ Idle
    /\ \E buying \in Coins, selling \in Coins,
          operationTypeString \in AnyOperationTypeStrings,
          quantityToFill \in QuantityStrings :
        /\ req' = Request("CalculateQuantityToFillAsBaseUnits", buying, selling,
                          0, operationTypeString, NoParse, quantityToFill, NilInt)
        /\ resp' = RateResponse(
                      CalculateQuantityToFillAsBaseUnits(
                          buying, selling, operationTypeString, quantityToFill))
    /\ UNCHANGED <<listing, mem>>

\* Values of lib.DAOCoinLimitOrderOperationType (a uint8) and of the two
\* string types: the known ones and some that are not.
AnyOperationTypes == OperationTypes \cup {0, DAOCoinLimitOrderOperationTypeBID + 1}
FillTypeStrings ==
    {DAOCoinLimitOrderFillTypeGoodTillCancelled, DAOCoinLimitOrderFillTypeFillOrKill,
     DAOCoinLimitOrderFillTypeImmediateOrCancel}
AnyFillTypeStrings == FillTypeStrings \cup {"", "GTC", "good_till_cancelled", "ASK"}

EnumResponse(r) ==
    [err |-> r.err, val |-> NilInt, rate |-> NilInt, str |-> <<>>, flag |-> FALSE,
     num |-> r.num, op |-> r.op]

CallOrderOperationTypeToString ==
    /\ Idle
    /\ \E operationType \in AnyOperationTypes :
        /\ req' = Request("orderOperationTypeToString", "", "", operationType, "",
                          NoParse, NilInt, NilInt)
        /\ resp' = EnumResponse(
                      [err |-> orderOperationTypeToString(operationType).err,
                       op |-> orderOperationTypeToString(operationType).op,
                       num |-> 0])
    /\ UNCHANGED <<listing, mem>>

CallOrderOperationTypeToUint64 ==
    /\ Idle
    /\ \E operationType \in AnyOperationTypeStrings \cup {"ask", "BID "} :
        /\ req' = Request("orderOperationTypeToUint64", "", "", 0, operationType,
                          NoParse, NilInt, NilInt)
        /\ resp' = EnumResponse(
                      [err |-> orderOperationTypeToUint64(operationType).err,
                       op |-> "",
                       num |-> orderOperationTypeToUint64(operationType).num])
    /\ UNCHANGED <<listing, mem>>

CallOrderFillTypeToUint64 ==
    /\ Idle
    /\ \E fillType \in AnyFillTypeStrings :
        /\ req' = [Request("orderFillTypeToUint64", "", "", 0, "",
                           NoParse, NilInt, NilInt) EXCEPT !.fillType = fillType]
        /\ resp' = EnumResponse(
                      [err |-> orderFillTypeToUint64(fillType).err,
                       op |-> "",
                       num |-> orderFillTypeToUint64(fillType).num])
    /\ UNCHANGED <<listing, mem>>

\* Quantities in base units around the two units.
QuantityBaseUnits ==
    {Zero, <<1>>, BigMulSmall(Pow10(8), 5), BigSub(NanosPerUnit, <<1>>), NanosPerUnit,
     BigMulSmall(Pow10(8), 25), BigSub(BaseUnitsPerCoin, <<1>>), BaseUnitsPerCoin,
     BigAdd(BaseUnitsPerCoin, <<1>>), MaxUint256}

CallCalculateQuantityToFillAsFloat ==
    /\ Idle
    /\ \E buying \in Coins, selling \in Coins,
          operationTypeString \in AnyOperationTypeStrings,
          quantityToFillInBaseUnits \in QuantityBaseUnits :
        /\ req' = Request("CalculateQuantityToFillAsFloat", buying, selling,
                          0, operationTypeString, NoParse, quantityToFillInBaseUnits, NilInt)
        /\ resp' = StringResponse(
                      CalculateQuantityToFillAsFloat(
                          buying, selling, operationTypeString, quantityToFillInBaseUnits))
    /\ UNCHANGED <<listing, mem>>

\* Quantities a user enters, with up to 18 fractional digits, and the base
\* units they are stored as under either unit.
EnteredQuantities ==
    {<<"0">>, <<"1">>, <<"2", ".", "5">>, <<"2", ".", "5", "0">>, <<"0", ".", "0", "0", "0", "0", "0", "0", "0", "0", "1">>, <<"3", ".", "0", "0", "0", "0", "0", "0", "0", "0", "0">>,
     <<"1", ".", "0", "0", "0", "0", "0", "0", "0", "0", "0", "0", "0", "0", "0", "0", "0", "0", "0", "1">>,
     <<"0", ".", "1", "2", "3", "4", "5", "6", "7", "8", "9", "0", "1", "2", "3", "4", "5", "6", "7", "8">>,
     <<"7", ".", "1", "0", "0", "0", "0", "0", "0", "0", "0", "0", "0", "0", "0", "0", "0", "0", "0", "0">>,
     <<"1">> \o ZeroChars(29)}
StoredQuantities ==
    {ScaleFloatFormatStringToUint256(q, f).val :
        q \in EnteredQuantities, f \in {NanosPerUnit, BaseUnitsPerCoin}}

CallCalculateQuantityAsString ==
    /\ Idle
    /\ \E buying \in Coins, selling \in Coins,
          operationTypeString \in AnyOperationTypeStrings,
          quantityToFillInBaseUnits \in StoredQuantities :
        /\ req' = Request("CalculateQuantityAsString", buying, selling,
                          0, operationTypeString, NoParse, quantityToFillInBaseUnits, NilInt)
        /\ resp' = StringResponse(
                      CalculateQuantityAsString(
                          buying, selling, operationTypeString, quantityToFillInBaseUnits))
    /\ UNCHANGED <<listing, mem>>

CallFormatFloatAsString ==
    /\ Idle
    /\ \E f \in FloatInputs :
        /\ req' = Request("formatFloatAsString", "", "", 0, "", NoParse, f, NilInt)
        /\ resp' = StringResponse(formatFloatAsString(f))
    /\ UNCHANGED <<listing, mem>>

\* A negative int64(f) never leaves getNumDigits: that call does not return.
CallFormatFloatAsStringLegacy ==
    /\ Idle
    /\ \E f \in FloatInputs :
        \E asInt64 \in Int64Conversions(f) :
            /\ ~IsNegative(asInt64)
            /\ req' = Request("formatFloatAsStringLegacy", "", "", 0, "",
                              NoParse, f, asInt64)
            /\ resp' = StringResponse(formatFloatAsStringLegacy(f, asInt64))
    /\ UNCHANGED <<listing, mem>>

ReturnToCaller ==
    /\ ~Idle
    /\ req' = NoRequest
    /\ resp' = NoResponse
    /\ UNCHANGED <<listing, mem>>

(***************************************************************************)
(* getNumDigits step by step: one action per loop iteration.  resp holds   *)
(* the locals: val the quotient, num the digit count, flag whether the     *)
(* function has returned.  The count is a Go int, which wraps around on    *)
(* overflow; the model gives it the range -MaxNumDigits..MaxNumDigits-1,   *)
(* whose upper end no terminating call reaches.                            *)
(***************************************************************************)
MaxNumDigits == 80

WrapInt(n) == IF n >= MaxNumDigits THEN n - 2 * MaxNumDigits ELSE n

\* Values getNumDigits is called with: scaling factors, decimal parts, and
\* the integer part of a float, which is negative for a float below -1.
DigitInputs ==
    {Zero, <<9>>, <<10>>, <<999>>, <<1000>>, MaxUint256}
        \cup {v \in RawScaledValues : BigCmp(v, OneE38) <= 0}
        \cup {Negative(<<1>>), Negative(<<15>>), Negative(<<1000>>)}

LoopResponse(quotient, numDigits, returned) ==
    [err |-> ErrNil, val |-> quotient, rate |-> NilInt, str |-> <<>>,
     flag |-> returned, num |-> numDigits, op |-> ""]

InGetNumDigits == req.fn = "getNumDigits" /\ ~resp.flag

GetNumDigitsEnter ==
    /\ Idle
    /\ \E val \in DigitInputs :
        /\ req' = Request("getNumDigits", "", "", 0, "", NoParse, val, NilInt)
        /\ resp' = LoopResponse(val, 0, FALSE)
    /\ UNCHANGED <<listing, mem>>

GetNumDigitsIterate ==
    /\ InGetNumDigits
    /\ getNumDigitsContinue(resp.val)
    /\ resp' = LoopResponse(getNumDigitsStep(<<resp.val, resp.num>>)[1],
                            WrapInt(getNumDigitsStep(<<resp.val, resp.num>>)[2]),
                            FALSE)
    /\ UNCHANGED req
    /\ UNCHANGED <<listing, mem>>

GetNumDigitsReturn ==
    /\ InGetNumDigits
    /\ ~getNumDigitsContinue(resp.val)
    /\ resp' = LoopResponse(resp.val, resp.num, TRUE)
    /\ UNCHANGED req
    /\ UNCHANGED <<listing, mem>>

DigitsNext ==
    \/ GetNumDigitsEnter
    \/ GetNumDigitsIterate
    \/ GetNumDigitsReturn
    \/ (resp.flag /\ ReturnToCaller)

\* The goroutine running the loop keeps running.
SpecDigits ==
    Init /\ [][DigitsNext]_vars
         /\ WF_vars(GetNumDigitsIterate) /\ WF_vars(GetNumDigitsReturn)

(***************************************************************************)
(* The order listings step by step: one action per loop iteration of a     *)
(* builder.  listing holds the builder's arguments and locals: index is    *)
(* the position of the range loop, logged the order ids written to the     *)
(* error log.                                                              *)
(***************************************************************************)
MaxOrders == 3

ListingCoins == {DESOCoinIdentifierString, "BC1YLCreatorA"}
\* Operation types stored on the book, one of them not a known type.
StoredOperationTypes ==
    {DAOCoinLimitOrderOperationTypeASK, DAOCoinLimitOrderOperationTypeBID,
     DAOCoinLimitOrderOperationTypeBID + 1}

OrderEntry(id, operationType, buying, selling) ==
    [OrderID |-> id, OperationType |-> operationType,
     ScaledExchangeRateCoinsToSellPerCoinToBuy |-> BigMulSmall(OneE38, id),
     QuantityToFillInBaseUnits |-> BigAdd(BigMulSmall(NanosPerUnit, id), <<5>>),
     BuyingCoin |-> buying, SellingCoin |-> selling]

\* The orders a lookup returns for a coin pair: any list of at most MaxOrders.
OrderLists(buying, selling) ==
    UNION {{[i \in 1..n |-> OrderEntry(i, types[i], buying, selling)] :
                types \in [1..n -> StoredOperationTypes]} : n \in 0..MaxOrders}

StartListing(fn, transactor, buying, selling, orders) ==
    [fn |-> fn, transactor |-> transactor, buying |-> buying, selling |-> selling,
     orders |-> orders, index |-> 1, responses |-> <<>>, logged |-> <<>>,
     badRequest |-> FALSE, lookedUp |-> TRUE, done |-> FALSE]

\* GetDAOCoinLimitOrders, lines 56-65: both coins $DESO is a bad request.
GetDAOCoinLimitOrdersReject ==
    /\ listing = NoListing
    /\ \E coin1 \in ListingCoins, coin2 \in ListingCoins :
        /\ coin1 = DESOCoinIdentifierString /\ coin2 = DESOCoinIdentifierString
        /\ listing' = [NoListing EXCEPT !.fn = GetOrdersHandler,
                          !.buying = coin1, !.selling = coin2,
                          !.badRequest = TRUE, !.done = TRUE]
    /\ UNCHANGED <<req, resp, mem>>

\* GetDAOCoinLimitOrders from the lookup on: the builder is entered with the
\* coins of the request and the orders found.
CoinPairEnter ==
    /\ listing = NoListing
    /\ \E coin1 \in ListingCoins, coin2 \in ListingCoins :
        /\ ~(coin1 = DESOCoinIdentifierString /\ coin2 = DESOCoinIdentifierString)
        /\ \E orders \in OrderLists(coin1, coin2) :
            listing' = StartListing(CoinPairBuilder, "BC1YLTransactor", coin1, coin2, orders)
    /\ UNCHANGED <<req, resp, mem>>

\* GetTransactorDAOCoinLimitOrders: the coins are those of each order.
TransactorEnter ==
    /\ listing = NoListing
    /\ \E buying \in ListingCoins, selling \in ListingCoins :
        /\ ~(buying = DESOCoinIdentifierString /\ selling = DESOCoinIdentifierString)
        /\ \E orders \in OrderLists(buying, selling) :
            listing' = StartListing(TransactorBuilder, "BC1YLTransactor", "", "", orders)
    /\ UNCHANGED <<req, resp, mem>>

InBuilder(fn) ==
    /\ listing.fn = fn
    /\ ~listing.done
    /\ listing.index <= Len(listing.orders)

CoinPairIterate ==
    /\ InBuilder(CoinPairBuilder)
    /\ listing' =
          [listing EXCEPT
              !.responses = AppendResponse(@,
                  buildDAOCoinLimitOrderResponse(
                      listing.transactor, listing.buying, listing.selling,
                      listing.orders[listing.index])),
              !.index = @ + 1]
    /\ UNCHANGED <<req, resp, mem>>

TransactorIterate ==
    /\ InBuilder(TransactorBuilder)
    /\ listing' =
          [listing EXCEPT
              !.responses = AppendResponse(@,
                  buildDAOCoinLimitOrderResponse(
                      listing.transactor,
                      listing.orders[listing.index].BuyingCoin,
                      listing.orders[listing.index].SellingCoin,
                      listing.orders[listing.index])),
              !.logged = LogSkipped(@,
                  buildDAOCoinLimitOrderResponse(
                      listing.transactor,
                      listing.orders[listing.index].BuyingCoin,
                      listing.orders[listing.index].SellingCoin,
                      listing.orders[listing.index]),
                  listing.orders[listing.index]),
              !.index = @ + 1]
    /\ UNCHANGED <<req, resp, mem>>

\* return responses
ListingReturn ==
    /\ listing.fn \in {CoinPairBuilder, TransactorBuilder}
    /\ ~listing.done
    /\ listing.index > Len(listing.orders)
    /\ listing' = [listing EXCEPT !.done = TRUE]
    /\ UNCHANGED <<req, resp, mem>>

ListingLeave ==
    /\ listing.done
    /\ listing' = NoListing
    /\ UNCHANGED <<req, resp, mem>>

ListingNext ==
    \/ GetDAOCoinLimitOrdersReject
    \/ CoinPairEnter
    \/ TransactorEnter
    \/ CoinPairIterate
    \/ TransactorIterate
    \/ ListingReturn
    \/ ListingLeave

SpecListing == Init /\ [][ListingNext]_vars

(***************************************************************************)
(* buildDAOCoinLimitOrderResponse step by step, for callers that build the *)
(* response of the same order at the same time.  mem.cells are the values  *)
(* in memory, mem.stored what the order held when the calls began, and     *)
(* mem.calls each caller's position, locals and the fields built so far.   *)
(***************************************************************************)
SharedOrders ==
    {[buying |-> pair[1], selling |-> pair[2], operationTypeString |-> op,
      rate |-> rate, quantity |-> BigMulSmall(Pow10(8), 25)] :
        pair \in {<<DESOCoinIdentifierString, "BC1YLCreatorA">>,
                  <<"BC1YLCreatorA", DESOCoinIdentifierString>>,
                  <<"BC1YLCreatorA", "BC1YLCreatorB">>},
        op \in OperationTypeStrings,
        rate \in {BigMulSmall(OneE38, 2), BigAdd(Pow10(47), <<1>>)}}

\* The cell a caller's scaledValueAsBigInt refers to.
ReadRef(c) ==
    IF mem.calls[c].ref = "order" THEN mem.cells.rate ELSE mem.calls[c].local

WriteRef(c, v, pc) ==
    IF mem.calls[c].ref = "order"
    THEN [mem EXCEPT !.cells.rate = v, !.calls[c].pc = pc]
    ELSE [mem EXCEPT !.calls[c].local = v, !.calls[c].pc = pc]

At(c, pc) == mem.active /\ mem.calls[c].pc = pc

BuildEnter ==
    /\ ~mem.active
    /\ \E order \in SharedOrders :
        mem' = [active |-> TRUE, buying |-> order.buying, selling |-> order.selling,
                operationTypeString |-> order.operationTypeString,
                stored |-> [rate |-> order.rate, quantity |-> order.quantity],
                cells |-> [rate |-> order.rate, quantity |-> order.quantity,
                           OneE38 |-> OneE38, BaseUnitsPerCoin |-> BaseUnitsPerCoin],
                calls |-> [c \in Callers |-> [NoCall EXCEPT !.pc = "priceToBig"]]]
    /\ UNCHANGED <<req, resp, listing>>

\* CalculateStringPriceFromScaledExchangeRate, line 427
PriceToBig ==
    /\ \E c \in Callers :
        /\ At(c, "priceToBig")
        /\ mem' = [mem EXCEPT !.calls[c].ref = ToBig("order"),
                              !.calls[c].local = mem.cells.rate,
                              !.calls[c].pc = "priceAdjust"]
    /\ UNCHANGED <<req, resp, listing>>

\* lines 428-432
PriceAdjust ==
    /\ \E c \in Callers :
        /\ At(c, "priceAdjust")
        /\ mem' = WriteRef(c, AdjustScaledValue(mem.buying, mem.selling, ReadRef(c)),
                           "priceFormat")
    /\ UNCHANGED <<req, resp, listing>>

\* line 434
PriceFormat ==
    /\ \E c \in Callers :
        /\ At(c, "priceFormat")
        /\ mem' = [mem EXCEPT
                      !.calls[c].Price =
                          formatScaledUint256AsDecimalString(ReadRef(c), mem.cells.OneE38),
                      !.calls[c].pc = "quantity"]
    /\ UNCHANGED <<req, resp, listing>>

\* CalculateQuantityAsString
QuantityFormat ==
    /\ \E c \in Callers :
        /\ At(c, "quantity")
        /\ mem' = [mem EXCEPT
                      !.calls[c].Quantity =
                          CalculateQuantityAsString(mem.buying, mem.selling,
                              mem.operationTypeString, mem.cells.quantity),
                      !.calls[c].pc = "rateToBig"]
    /\ UNCHANGED <<req, resp, listing>>

\* CalculateExchangeRateAsFloat, line 445
RateToBig ==
    /\ \E c \in Callers :
        /\ At(c, "rateToBig")
        /\ mem' = [mem EXCEPT !.calls[c].ref = ToBig("order"),
                              !.calls[c].local = mem.cells.rate,
                              !.calls[c].pc = "rateAdjust"]
    /\ UNCHANGED <<req, resp, listing>>

\* lines 446-450
RateAdjust ==
    /\ \E c \in Callers :
        /\ At(c, "rateAdjust")
        /\ mem' = WriteRef(c, AdjustScaledValue(mem.buying, mem.selling, ReadRef(c)),
                           "rateFormat")
    /\ UNCHANGED <<req, resp, listing>>

\* lines 452-464
RateFormat ==
    /\ \E c \in Callers :
        /\ At(c, "rateFormat")
        /\ mem' = [mem EXCEPT
                      !.calls[c].ExchangeRateCoinsToSellPerCoinToBuy =
                          FloatNumeral(ReadRef(c), mem.cells.OneE38),
                      !.calls[c].pc = "quantityToFill"]
    /\ UNCHANGED <<req, resp, listing>>

\* CalculateQuantityToFillAsFloat, then the response is returned
QuantityToFillFormat ==
    /\ \E c \in Callers :
        /\ At(c, "quantityToFill")
        /\ mem' = [mem EXCEPT
                      !.calls[c].QuantityToFill =
                          CalculateQuantityToFillAsFloat(mem.buying, mem.selling,
                              mem.operationTypeString, mem.cells.quantity),
                      !.calls[c].pc = "done"]
    /\ UNCHANGED <<req, resp, listing>>

BuildLeave ==
    /\ mem.active
    /\ \A c \in Callers : mem.calls[c].pc = "done"
    /\ mem' = NoMem
    /\ UNCHANGED <<req, resp, listing>>

BuildNext ==
    \/ BuildEnter
    \/ PriceToBig
    \/ PriceAdjust
    \/ PriceFormat
    \/ QuantityFormat
    \/ RateToBig
    \/ RateAdjust
    \/ RateFormat
    \/ QuantityToFillFormat
    \/ BuildLeave

SpecBuild == Init /\ [][BuildNext]_vars

(***************************************************************************)
(* Balance validation of a new order against the transactor's open orders. *)
(***************************************************************************)
MaxOpenOrders == 2

BuyingCoins == {DESOCoinIdentifierString, "BC1YLCreatorA", "BC1YLCreatorB"}
SellingCoins == {DESOCoinIdentifierString, "BC1YLCreatorA"}
Balances == {NilInt, <<5>>, <<10>>, <<20>>}

OpenOrder(buying, selling, baseUnitsToSell) ==
    [BuyingDAOCoinCreatorPKID |-> buying, SellingDAOCoinCreatorPKID |-> selling,
     BaseUnitsToSell |-> baseUnitsToSell]

\* Open orders of the transactor: five base units each, and one that sells
\* more than any balance.
OpenOrderKinds ==
    {OpenOrder(pair[1], pair[2], <<5>>) :
        pair \in {p \in BuyingCoins \X SellingCoins : p[1] # p[2]}}
        \cup {OpenOrder("BC1YLCreatorB", "BC1YLCreatorA", MaxUint256)}

OpenOrderLists == UNION {[1..n -> OpenOrderKinds] : n \in 0..MaxOpenOrders}

CallValidateTransactorSellingCoinBalance ==
    /\ Idle
    /\ \E buying \in BuyingCoins, selling \in SellingCoins,
          operationType \in OperationTypeStrings \cup {"SELL"},
          balance \in Balances, orders \in OpenOrderLists :
        /\ buying # selling
        /\ req' = [Request("validateTransactorSellingCoinBalance", buying, selling,
                           0, operationType, NoParse, <<5>>, BigMulSmall(OneE38, 2))
                      EXCEPT !.balance = balance, !.orders = orders]
        /\ resp' = [NoResponse EXCEPT !.err =
                      validateTransactorSellingCoinBalance(
                          buying, selling, operationType,
                          BigMulSmall(OneE38, 2), <<5>>, balance, orders)]
    /\ UNCHANGED <<listing, mem>>

ValidateNext ==
    \/ CallValidateTransactorSellingCoinBalance
    \/ ReturnToCaller

SpecValidate == Init /\ [][ValidateNext]_vars

(***************************************************************************)
(* Requests of the message handlers.                                       *)
(***************************************************************************)
OwnerKeyStrings == {"BC1YLAlice", "BC1YLBob", "0OIl"}
AccessGroupKeyStrings == {"BC1YLGroupA", "BC1YLGroupB", "BC1YLNotAKey", "0OIl"}

\* Key names: the empty name, one zero byte, "team", and a name that is
\* the bytes of a public key.
KeyNames == {<<>>, <<0>>, <<116, 101, 97, 109>>, <<2, 1>>}

\* Character limits the library may impose on a key name.
NameLimits == {[min |-> 0, max |-> 4], [min |-> 1, max |-> 4], [min |-> 1, max |-> 1]}

CallValidateAccessGroupPublicKeyAndName ==
    /\ Idle
    /\ \E publicKeyBase58Check \in OwnerKeyStrings \cup AccessGroupKeyStrings,
          accessGroupKeyName \in KeyNames, limits \in NameLimits :
        /\ req' = [fn |-> "ValidateAccessGroupPublicKeyAndName",
                   publicKeyBase58Check |-> publicKeyBase58Check,
                   accessGroupKeyName |-> accessGroupKeyName, limits |-> limits]
        /\ resp' = ValidateAccessGroupPublicKeyAndName(
                       publicKeyBase58Check, accessGroupKeyName, limits)
    /\ UNCHANGED <<listing, mem>>

SendDmMessageRequests ==
    [SenderAccessGroupOwnerPublicKeyBase58Check : OwnerKeyStrings,
     SenderAccessGroupPublicKeyBase58Check : AccessGroupKeyStrings \ {"BC1YLGroupB"},
     SenderAccessGroupKeyName : {<<0>>, <<2, 1>>},
     RecipientAccessGroupOwnerPublicKeyBase58Check : {"BC1YLAlice", "BC1YLBob"},
     RecipientAccessGroupPublicKeyBase58Check : AccessGroupKeyStrings \ {"BC1YLGroupA", "0OIl"},
     RecipientAccessGroupKeyName : {<<116, 101, 97, 109>>, <<2, 1>>}]

SendDmMessage ==
    /\ Idle
    /\ \E requestData \in SendDmMessageRequests, limits \in NameLimits,
          later \in {ErrNil, ErrCreating} :
        /\ req' = [fn |-> "SendDmMessage", requestData |-> requestData,
                   limits |-> limits]
        /\ resp' = SendMessage(requestData, NewMessageTypeDm, limits, later)
    /\ UNCHANGED <<listing, mem>>

SendGroupChatMessage ==
    /\ Idle
    /\ \E requestData \in SendDmMessageRequests, limits \in NameLimits,
          later \in {ErrNil, ErrCreating} :
        /\ req' = [fn |-> "SendGroupChatMessage", requestData |-> requestData,
                   limits |-> limits]
        /\ resp' = SendMessage(requestData, NewMessageTypeGroupChat, limits, later)
    /\ UNCHANGED <<listing, mem>>

(***************************************************************************)
(* Requests for the threads of a user.                                     *)
(***************************************************************************)
MaxThreads == 3

Timestamps == {1, 2}

\* What the library finds for thread i.
ThreadFetches(i) ==
    {Fetched(<<>>, ErrFetching), Fetched(<<>>, ErrNil)}
        \cup {Fetched(<<[thread |-> i, TimestampNanos |-> t]>>, ErrNil) :
                t \in Timestamps}

UserThreads ==
    UNION {{threads \in [1..n -> UNION {ThreadFetches(i) : i \in 1..n}] :
               \A i \in 1..n : threads[i] \in ThreadFetches(i)} :
           n \in 0..MaxThreads}

GetUserDmThreadsOrderedByTimeStamp ==
    /\ Idle
    /\ \E owner \in {"BC1YLAlice", "0OIl"}, threadsErr \in {ErrNil, ErrThreads},
          threads \in UserThreads :
        /\ req' = [fn |-> "GetUserDmThreadsOrderedByTimeStamp",
                   requestData |-> [OwnerPublicKeyBase58Check |-> owner],
                   threadsErr |-> threadsErr, threads |-> threads]
        /\ resp' \in GetUserThreadsOrderedByTimestamp(
                         [OwnerPublicKeyBase58Check |-> owner], threadsErr, threads)
    /\ UNCHANGED <<listing, mem>>

GetUserGroupChatThreadsOrderedByTimestamp ==
    /\ Idle
    /\ \E owner \in {"BC1YLAlice", "0OIl"}, threadsErr \in {ErrNil, ErrThreads},
          threads \in UserThreads :
        /\ req' = [fn |-> "GetUserGroupChatThreadsOrderedByTimestamp",
                   requestData |-> [OwnerPublicKeyBase58Check |-> owner],
                   threadsErr |-> threadsErr, threads |-> threads]
        /\ resp' \in GetUserThreadsOrderedByTimestamp(
                         [OwnerPublicKeyBase58Check |-> owner], threadsErr, threads)
    /\ UNCHANGED <<listing, mem>>

MessagingNext ==
    \/ CallValidateAccessGroupPublicKeyAndName
    \/ SendDmMessage
    \/ SendGroupChatMessage
    \/ GetUserDmThreadsOrderedByTimeStamp
    \/ GetUserGroupChatThreadsOrderedByTimestamp
    \/ ReturnToCaller

SpecMessaging == Init /\ [][MessagingNext]_vars

Next ==
    \/ CallCalculateScaledExchangeRateFromPriceString
    \/ CallCalculateScaledExchangeRateFromFloat
    \/ CallCalculateScaledExchangeRate
    \/ CallCalculateStringPriceFromScaledExchangeRate
    \/ CallFormatScaledUint256AsDecimalString
    \/ CallIsCoinToFillDESO
    \/ CallIsCoinToFillDESOLegacy
    \/ CallCalculateExchangeRateAsFloat
    \/ CallCalculateQuantityToFillAsBaseUnits
    \/ CallOrderOperationTypeToString
    \/ CallOrderOperationTypeToUint64
    \/ CallOrderFillTypeToUint64
    \/ CallCalculateQuantityToFillAsFloat
    \/ CallCalculateQuantityAsString
    \/ CallFormatFloatAsString
    \/ CallFormatFloatAsStringLegacy
    \/ ReturnToCaller

Spec == Init /\ [][Next]_vars

OneE76 == Pow10(76)
OneE9 == Pow10(9)

PriceStringFn == "CalculateScaledExchangeRateFromPriceString"
FloatFn == "CalculateScaledExchangeRateFromFloat"
LegacyFn == "CalculateScaledExchangeRate"
ReadFn == "CalculateStringPriceFromScaledExchangeRate"
FormatFn == "formatScaledUint256AsDecimalString"
WriteFns == {PriceStringFn, FloatFn, LegacyFn}

\* The native-coin sentinel of the file the called function lives in.
NativeCoin == IF req.fn \in {LegacyFn, "isCoinToFillDESOLegacy"} THEN "" ELSE "DESO"
BuyingNative == req.buying = NativeCoin
SellingNative == req.selling = NativeCoin
ParsedOk == req.parsed.err = ErrNil
Raw == req.parsed.val
IsAsk == req.operationType = DAOCoinLimitOrderOperationTypeASK

\* The rate before the denomination adjustment, as the specification has it.
ExpectedRate ==
    IF req.fn = PriceStringFn /\ IsAsk /\ Raw # Zero THEN BigDiv(OneE76, Raw) ELSE Raw

(***************************************************************************)
(* C1: isCoinToFillDESO(buying, selling, op) is true iff (buying is the    *)
(* native-coin sentinel and op is BID) or (selling is the native-coin      *)
(* sentinel and op is ASK), for every coin pair and operation type, in     *)
(* both copies of the function.                                            *)
(***************************************************************************)
C1_IsCoinToFillDESO ==
    req.fn \in {"isCoinToFillDESO", "isCoinToFillDESOLegacy"} =>
        (resp.flag <=> \/ BuyingNative /\ req.operationTypeString = "BID"
                       \/ SellingNative /\ req.operationTypeString = "ASK")

C1_Witness ==
    /\ req.fn = "isCoinToFillDESO"
    /\ req.buying # "DESO" /\ req.selling = "DESO" /\ req.operationTypeString = "ASK"
    /\ resp.flag

(***************************************************************************)
(* C2: when the buying coin is native, CalculateScaledExchangeRate-        *)
(* FromPriceString and CalculateScaledExchangeRateFromFloat return the     *)
(* rate times 10^9, and return the Overflow error with no value exactly    *)
(* when that product does not fit in 256 bits.                             *)
(***************************************************************************)
C2_BuyingNativeMultiplies ==
    (req.fn \in {PriceStringFn, FloatFn} /\ BuyingNative /\ ParsedOk /\ Raw # Zero) =>
        LET product == BigMul(ExpectedRate, OneE9)
        IN IF BigCmp(product, TwoTo256) >= 0
           THEN resp.err = ErrOverflow /\ resp.val = NilInt
           ELSE resp.err = ErrNil /\ resp.val = product

C2_Witness ==
    /\ req.fn = PriceStringFn /\ BuyingNative /\ ParsedOk
    /\ req.operationType = DAOCoinLimitOrderOperationTypeBID
    /\ Raw = BigAdd(MaxRateBuyingDESO, <<1>>)
    /\ resp.err = ErrOverflow

(***************************************************************************)
(* C3: when the selling coin is native and the buying coin is not, the     *)
(* scaled-rate conversions return the rate divided by 10^9, and return the *)
(* too-small (Underflow) error instead of zero whenever that quotient is   *)
(* zero, i.e. for every rate below 10^9.                                   *)
(***************************************************************************)
C3_SellingNativeDivides ==
    (req.fn \in WriteFns /\ SellingNative /\ ~BuyingNative /\ ParsedOk) =>
        LET quotient == BigDiv(ExpectedRate, OneE9)
        IN /\ (quotient = Zero) <=> (BigCmp(ExpectedRate, OneE9) < 0)
           /\ IF quotient = Zero
              THEN resp.err = ErrTooSmall /\ resp.val = NilInt
              ELSE resp.err = ErrNil /\ resp.val = quotient

C3_Witness ==
    /\ req.fn = PriceStringFn /\ SellingNative /\ ~BuyingNative /\ ParsedOk
    /\ Raw # Zero /\ ExpectedRate = BigSub(OneE9, <<1>>)
    /\ resp.err = ErrTooSmall

(***************************************************************************)
(* C4: a raw scaled rate of zero is rejected by every write-path           *)
(* conversion for every coin pair: the call returns an error and never a   *)
(* successful rate of zero.                                                *)
(***************************************************************************)
C4_ZeroRateRejected ==
    (req.fn \in WriteFns /\ ParsedOk /\ Raw = Zero) =>
        resp.err # ErrNil /\ resp.val = NilInt

(***************************************************************************)
(* C5: for an ASK whose raw scaled price is so large that                  *)
(* floor(10^76 / raw) is zero, CalculateScaledExchangeRateFromPriceString  *)
(* returns the too-small (Underflow) error for every coin pair and never   *)
(* a scaled exchange rate of zero.                                         *)
(***************************************************************************)
C5_InvertedZeroRejected ==
    (req.fn = PriceStringFn /\ ParsedOk /\ Raw # Zero /\ IsAsk
        /\ BigDiv(OneE76, Raw) = Zero) =>
        resp.err = ErrTooSmall /\ resp.val = NilInt

ReadAdjusted ==
    IF req.buying = "DESO" THEN BigDiv(req.value, OneE9)
    ELSE IF req.selling = "DESO" THEN BigMul(req.value, OneE9)
    ELSE req.value

C7_ReadInvertsForAsk ==
    (req.fn = ReadFn /\ ReadAdjusted # Zero) =>
        /\ IsDecimalString(resp.str)
        /\ ScaledValueOf(resp.str, 38) =
              (IF req.operationTypeString = "ASK"
               THEN BigDiv(OneE76, ReadAdjusted) ELSE ReadAdjusted)

C7_ReadsBackEnteredPrice ==
    (req.fn = PriceStringFn /\ resp.err = ErrNil
        /\ req.buying # "DESO" /\ req.selling # "DESO"
        /\ BigMod(OneE76, Raw) = Zero) =>
        ScaledValueOf(
            CalculateStringPriceFromScaledExchangeRate(
                req.buying, req.selling, resp.val,
                IF IsAsk THEN "ASK" ELSE "BID"), 38) = Raw

C7_PriceFollowsOperationType == C7_ReadInvertsForAsk /\ C7_ReadsBackEnteredPrice

(***************************************************************************)
(* C8: for a DAO coin / DAO coin pair the denomination adjustment is the   *)
(* identity in both directions: the write path returns the (possibly       *)
(* inverted) raw scaled rate unchanged, and the read path formats the      *)
(* stored scaled rate without multiplying or dividing by 10^9.             *)
(***************************************************************************)
C8_DaoPairIdentity ==
    /\ (req.fn \in WriteFns /\ ~BuyingNative /\ ~SellingNative /\ ParsedOk /\ Raw # Zero) =>
          resp.err = ErrNil /\ resp.val = ExpectedRate
    /\ (req.fn = ReadFn /\ ~BuyingNative /\ ~SellingNative) =>
          IsDecimalString(resp.str) /\ ScaledValueOf(resp.str, 38) = req.value

C8_Witness ==
    /\ req.fn = ReadFn /\ ~BuyingNative /\ ~SellingNative
    /\ req.value = BigAdd(OneE38, <<1>>)
    /\ ScaledValueOf(resp.str, 38) = req.value

(***************************************************************************)
(* C9: formatScaledUint256AsDecimalString(v, 10^k) returns                 *)
(* "<v div 10^k>.<frac>" where, whenever v mod 10^k is nonzero, frac has   *)
(* exactly k = digits(scalingFactor) - 1 digits and is v mod 10^k          *)
(* left-padded with zeros, so the string denotes exactly v / 10^k.         *)
(***************************************************************************)
C9_FractionZeroPadded ==
    req.fn = FormatFn =>
        \E k \in {9, 18, 38} :
            /\ req.scalingFactor = Pow10(k)
            /\ getNumDigits(req.scalingFactor) - 1 = k
            /\ IsDecimalString(resp.str)
            /\ DigitsValue(WholePart(resp.str)) = BigDiv(req.value, req.scalingFactor)
            /\ BigMod(req.value, req.scalingFactor) # Zero =>
                  /\ Len(FractionPart(resp.str)) = k
                  /\ DigitsValue(FractionPart(resp.str)) = BigMod(req.value, req.scalingFactor)
                  /\ ScaledValueOf(resp.str, k) = req.value

C9_Witness ==
    /\ req.fn = FormatFn
    /\ req.scalingFactor = OneE38
    /\ req.value = BigAdd(OneE38, <<1>>)
    /\ resp.str = <<"1", ".">> \o [i \in 1..37 |-> "0"] \o <<"1">>

(***************************************************************************)
(* C10: when v is an exact multiple of the scaling factor,                 *)
(* formatScaledUint256AsDecimalString emits the fractional part as the     *)
(* single digit "0" ("<whole>.0"), for the scaling factors 10^9, 10^18     *)
(* and 10^38.                                                              *)
(***************************************************************************)
C10_ExactMultipleEndsInZero ==
    (req.fn = FormatFn /\ BigMod(req.value, req.scalingFactor) = Zero) =>
        /\ req.scalingFactor \in {Pow10(9), Pow10(18), Pow10(38)}
        /\ IsDecimalString(resp.str)
        /\ FractionPart(resp.str) = <<"0">>
        /\ DigitsValue(WholePart(resp.str)) = BigDiv(req.value, req.scalingFactor)

C10_Witness ==
    /\ req.fn = FormatFn
    /\ req.scalingFactor = NanosPerUnit
    /\ req.value = BigMulSmall(Pow10(38), 2)
    /\ resp.str = <<"2">> \o [i \in 1..29 |-> "0"] \o <<".", "0">>

\* S without the trailing zeros of its fractional part (and without the
\* point when nothing is left after it).
TrimFraction(s) ==
    IF ~HasPoint(s) THEN s
    ELSE LET f == FractionPart(s)
             nz == {i \in 1..Len(f) : f[i] # "0"}
         IN IF nz = {} THEN WholePart(s)
            ELSE WholePart(s) \o <<".">>
                    \o SubSeq(f, 1, CHOOSE i \in nz : \A j \in nz : j <= i)

(***************************************************************************)
(* C11: round trip of a rate.  For every decimal numeral S with at most 38 *)
(* fractional digits, formatting the value parsed from S with scaling      *)
(* factor 10^38 gives back S, modulo trailing zeros of the fraction.       *)
(***************************************************************************)
C11_ParseFormatRoundTrip ==
    (req.fn = FormatFn /\ req.scalingFactor = OneE38) =>
        \A s \in PriceStrings :
            ParseDecimalToScaled(s) = req.value =>
                TrimFraction(resp.str) = TrimFraction(s)

C11_Witness ==
    /\ req.fn = FormatFn /\ req.scalingFactor = OneE38
    /\ req.value = ParseDecimalToScaled(ZeroChars(1) \o <<".">> \o ZeroChars(28) \o <<"1", "0">>)
    /\ resp.str = <<"0", ".">> \o ZeroChars(28) \o <<"1">> \o ZeroChars(9)

(***************************************************************************)
(* C12: denomination symmetry.  For the same coin pair, the write-path     *)
(* adjustment of a rate r followed by the read-path adjustment recovers r  *)
(* exactly when the buying coin is native, and recovers r less a           *)
(* truncation below 10^9 when the selling coin is native.  The read-path   *)
(* adjustment is the one of the string price and of the float rate.        *)
(***************************************************************************)
ReadBackAsPrice ==
    ScaledValueOf(
        CalculateStringPriceFromScaledExchangeRate(req.buying, req.selling, resp.val, "BID"), 38)
\* The float's numeral has 38 or 39 fractional digits: its value times 10^39.
ReadBackAsFloat ==
    ScaledValueOf(CalculateExchangeRateAsFloat(req.buying, req.selling, resp.val), 39)

C12_DenominationSymmetry ==
    (req.fn \in {PriceStringFn, FloatFn} /\ resp.err = ErrNil) =>
        /\ BuyingNative =>
              /\ ReadBackAsPrice = ExpectedRate
              /\ ReadBackAsFloat = BigMulSmall(ExpectedRate, 10)
        /\ (SellingNative /\ ~BuyingNative) =>
              /\ BigCmp(ReadBackAsPrice, ExpectedRate) <= 0
              /\ BigCmp(BigSub(ExpectedRate, ReadBackAsPrice), OneE9) < 0
              /\ ReadBackAsFloat = BigMulSmall(ReadBackAsPrice, 10)

C12_Witness ==
    /\ req.fn = PriceStringFn /\ resp.err = ErrNil
    /\ SellingNative /\ ~BuyingNative
    /\ BigMod(ExpectedRate, OneE9) # Zero
    /\ ReadBackAsPrice # ExpectedRate

(***************************************************************************)
(* C13: the ASK inversion is an involution on rates representable without  *)
(* precision loss: for every raw scaled rate r that divides 10^76 exactly, *)
(* the inverted rate is exactly 10^76 / r and inverting it again returns   *)
(* r.                                                                      *)
(***************************************************************************)
C13_InversionInvolution ==
    (req.fn = PriceStringFn /\ ParsedOk /\ Raw # Zero /\ IsAsk
        /\ BigMod(OneE76, Raw) = Zero) =>
        /\ BigMul(resp.rate, Raw) = OneE76
        /\ ~InvertPriceForASK(resp.rate, DAOCoinLimitOrderOperationTypeASK).overflow
        /\ InvertPriceForASK(resp.rate, DAOCoinLimitOrderOperationTypeASK).val = Raw

C13_Witness ==
    /\ req.fn = PriceStringFn /\ ParsedOk /\ IsAsk
    /\ Raw = BigMulSmall(OneE38, 2)
    /\ resp.rate = BigMulSmall(Pow10(37), 5)
    /\ InvertPriceForASK(resp.rate, DAOCoinLimitOrderOperationTypeASK).val = Raw

(***************************************************************************)
(* C14: CalculateQuantityToFillAsBaseUnits scales the entered quantity by  *)
(* 10^9 when the quantity refers to the native coin (buying native and     *)
(* BID, or selling native and ASK) and by 10^18 otherwise; buying a DAO    *)
(* coin, selling native, ASK, quantity "2.5" gives 2500000000.             *)
(***************************************************************************)
QuantityFn == "CalculateQuantityToFillAsBaseUnits"
QuantityTimesPow10(s, k) ==
    IF HasPoint(s) THEN ScaledValueOf(s, k) ELSE BigMul(DigitsValue(s), Pow10(k))

C14_QuantityScaledByCoin ==
    req.fn = QuantityFn =>
        /\ resp.err = ErrNil
        /\ resp.val =
              QuantityTimesPow10(req.value,
                  IF \/ BuyingNative /\ req.operationTypeString = "BID"
                     \/ SellingNative /\ req.operationTypeString = "ASK"
                  THEN 9 ELSE 18)

C14_Witness ==
    /\ req.fn = QuantityFn
    /\ req.buying = "BC1YLCreatorA" /\ req.selling = "DESO"
    /\ req.operationTypeString = "ASK"
    /\ req.value = <<"2", ".", "5">>
    /\ resp.val = <<25, 0, 0>>

(***************************************************************************)
(* C15: getNumDigits returns 0 for 0 and, for every positive integer n,    *)
(* the number d of decimal digits of n (10^(d-1) <= n < 10^d); 999 gives 3 *)
(* and 1000 gives 4.                                                       *)
(***************************************************************************)
GetNumDigitsReturned == req.fn = "getNumDigits" /\ resp.flag

C15_GetNumDigitsCountsDigits ==
    GetNumDigitsReturned =>
        /\ resp.num = getNumDigits(req.value)
        /\ req.value = Zero => resp.num = 0
        /\ req.value # Zero =>
              /\ resp.num >= 1
              /\ BigCmp(Pow10(resp.num - 1), req.value) <= 0
              /\ BigCmp(req.value, Pow10(resp.num)) < 0
        /\ req.value = <<999>> => resp.num = 3
        /\ req.value = <<1000>> => resp.num = 4

C15_Witness ==
    /\ GetNumDigitsReturned
    /\ req.value = <<1000>>
    /\ resp.num = 4

(***************************************************************************)
(* C16: getNumDigits terminates for every integer it can be called with,   *)
(* including the negative integer part that formatFloatAsString passes for *)
(* a negative float: every call that is entered eventually returns.        *)
(***************************************************************************)
C16_GetNumDigitsTerminates == (req.fn = "getNumDigits") ~> GetNumDigitsReturned

(***************************************************************************)
(* C17: in the listing read paths an order whose response cannot be built  *)
(* is skipped and every other order is still returned: the list a builder  *)
(* returns is exactly the sub-sequence of the input orders for which       *)
(* buildDAOCoinLimitOrderResponse succeeds, in input order, whatever       *)
(* orders fail.                                                            *)
(***************************************************************************)
BuiltFor(order) ==
    IF listing.fn = CoinPairBuilder
    THEN buildDAOCoinLimitOrderResponse(
            listing.transactor, listing.buying, listing.selling, order)
    ELSE buildDAOCoinLimitOrderResponse(
            listing.transactor, order.BuyingCoin, order.SellingCoin, order)

Builds(order) == BuiltFor(order).err = ErrNil

ExpectedResponses(orders) ==
    LET ok == SelectSeq(orders, Builds)
    IN  [i \in 1..Len(ok) |-> BuiltFor(ok[i]).response]

BuilderReturned == listing.fn \in {CoinPairBuilder, TransactorBuilder} /\ listing.done

C17_ListingSkipsFailedOrders ==
    listing.fn \in {CoinPairBuilder, TransactorBuilder} =>
        /\ listing.responses =
              ExpectedResponses(SubSeq(listing.orders, 1, listing.index - 1))
        /\ listing.done => listing.responses = ExpectedResponses(listing.orders)

C17_Witness ==
    /\ BuilderReturned
    /\ Len(listing.orders) = 3
    /\ Builds(listing.orders[1])
    /\ ~Builds(listing.orders[2])
    /\ Builds(listing.orders[3])
    /\ Len(listing.responses) = 2
    /\ listing.responses[1].OrderID = 1
    /\ listing.responses[2].OrderID = 3

(***************************************************************************)
(* C18: every order skipped by a listing read path is logged: both         *)
(* builders emit a log entry each time they skip an order whose response   *)
(* could not be built.                                                     *)
(***************************************************************************)
C18_SkippedOrdersLogged ==
    BuilderReturned =>
        \A i \in 1..Len(listing.orders) :
            ~Builds(listing.orders[i]) =>
                \E j \in 1..Len(listing.logged) :
                    listing.logged[j] = listing.orders[i].OrderID


(***************************************************************************)
(* C19: a pair in which both the buying and the selling coin are native is *)
(* never accepted: GetDAOCoinLimitOrders rejects the request before any    *)
(* order lookup, and CalculateScaledExchangeRateFromPriceString and        *)
(* CalculateScaledExchangeRateFromFloat never return a rate without error  *)
(* for it.                                                                 *)
(***************************************************************************)
BothNative(buying, selling) ==
    buying = DESOCoinIdentifierString /\ selling = DESOCoinIdentifierString

ListingRejectsBothNative ==
    /\ listing.lookedUp => ~BothNative(listing.buying, listing.selling)
    /\ (listing.fn = GetOrdersHandler /\ BothNative(listing.buying, listing.selling))
          => listing.badRequest /\ ~listing.lookedUp

C19_BothNativeNeverAccepted ==
    /\ ListingRejectsBothNative
    /\ (req.fn \in {PriceStringFn, FloatFn} /\ BothNative(req.buying, req.selling))
          => resp.err # ErrNil


(***************************************************************************)
(* C20: orderOperationTypeToString, orderOperationTypeToUint64 and         *)
(* orderFillTypeToUint64 return an unknown-value error for every value     *)
(* that is not a recognized variant and never map it to a default variant; *)
(* every recognized variant maps to its own counterpart without error.     *)
(***************************************************************************)
ToStringFn == "orderOperationTypeToString"
ToUint64Fn == "orderOperationTypeToUint64"
FillTypeFn == "orderFillTypeToUint64"

Failed == resp.err # ErrNil

C20_OperationTypeToString ==
    req.fn = ToStringFn =>
        /\ req.operationType = DAOCoinLimitOrderOperationTypeASK
              => ~Failed /\ resp.op = DAOCoinLimitOrderOperationTypeStringASK
        /\ req.operationType = DAOCoinLimitOrderOperationTypeBID
              => ~Failed /\ resp.op = DAOCoinLimitOrderOperationTypeStringBID
        /\ req.operationType \notin OperationTypes
              => Failed /\ resp.op \notin OperationTypeStrings

C20_OperationTypeToUint64 ==
    req.fn = ToUint64Fn =>
        /\ req.operationTypeString = DAOCoinLimitOrderOperationTypeStringASK
              => ~Failed /\ resp.num = DAOCoinLimitOrderOperationTypeASK
        /\ req.operationTypeString = DAOCoinLimitOrderOperationTypeStringBID
              => ~Failed /\ resp.num = DAOCoinLimitOrderOperationTypeBID
        /\ req.operationTypeString \notin OperationTypeStrings
              => Failed /\ resp.num \notin OperationTypes

C20_FillTypeToUint64 ==
    req.fn = FillTypeFn =>
        /\ req.fillType = DAOCoinLimitOrderFillTypeGoodTillCancelled
              => ~Failed /\ resp.num = FillTypeGoodTillCancelled
        /\ req.fillType = DAOCoinLimitOrderFillTypeFillOrKill
              => ~Failed /\ resp.num = FillTypeFillOrKill
        /\ req.fillType = DAOCoinLimitOrderFillTypeImmediateOrCancel
              => ~Failed /\ resp.num = FillTypeImmediateOrCancel
        /\ req.fillType \notin FillTypeStrings
              => /\ Failed
                 /\ resp.num \notin {FillTypeGoodTillCancelled, FillTypeFillOrKill,
                                     FillTypeImmediateOrCancel}

C20_UnknownEnumValuesRejected ==
    C20_OperationTypeToString /\ C20_OperationTypeToUint64 /\ C20_FillTypeToUint64

C20_Witness ==
    /\ req.fn = ToUint64Fn
    /\ req.operationTypeString = "SELL"
    /\ resp.err = ErrUnknownOperationTypeString


(***************************************************************************)
(* C27: the overflow check after the ASK inversion can never fire: for     *)
(* every non-zero raw scaled price in [1, 2^256 - 1], floor(10^76 / raw)   *)
(* is at most 10^76 and fits in 256 bits, so an Overflow error of an ASK   *)
(* call comes from the later multiplication, never from the inversion.     *)
(***************************************************************************)
AskInversion == InvertPriceForASK(Raw, DAOCoinLimitOrderOperationTypeASK)

C27_AskInversionNeverOverflows ==
    (req.fn = PriceStringFn /\ ParsedOk /\ Raw # Zero /\ IsAsk) =>
        /\ BigCmp(OneE76, MaxUint256) < 0
        /\ ~AskInversion.overflow
        /\ BigCmp(AskInversion.val, OneE76) <= 0
        /\ resp.rate = AskInversion.val
        /\ resp.err = ErrOverflow => BuyingNative

C27_Witness ==
    /\ req.fn = PriceStringFn
    /\ ParsedOk
    /\ IsAsk
    /\ Raw = <<1>>
    /\ ~BuyingNative /\ ~SellingNative
    /\ resp.err = ErrNil
    /\ resp.val = OneE76


(***************************************************************************)
(* C28: the zero-padding count is never negative: in                       *)
(* CalculateExchangeRateAsFloat,                                           *)
(* calculateQuantityToFillAsFloatWithScalingFactor and                     *)
(* formatScaledUint256AsDecimalString,                                     *)
(* digits(scalingFactor) - digits(v mod scalingFactor) - 1 >= 0 for every  *)
(* v and every scaling factor used (10^9, 10^18, 10^38), a zero remainder  *)
(* included, so strings.Repeat never panics and the string built denotes   *)
(* exactly v / scalingFactor.                                              *)
(***************************************************************************)
RateFloatFn == "CalculateExchangeRateAsFloat"
QuantityFloatFn == "CalculateQuantityToFillAsFloat"

\* The value divided and the scaling factor it is divided by.
PaddedValue == IF req.fn = RateFloatFn THEN ReadAdjusted ELSE req.value
PaddedScalingFactor ==
    IF req.fn = RateFloatFn THEN OneE38
    ELSE IF req.fn = FormatFn THEN req.scalingFactor
    ELSE IF isCoinToFillDESO(req.buying, req.selling, req.operationTypeString)
    THEN NanosPerUnit
    ELSE BaseUnitsPerCoin

PaddingCount ==
    getNumDigits(PaddedScalingFactor)
        - getNumDigits(BigMod(PaddedValue, PaddedScalingFactor)) - 1

\* str is a numeral whose value is exactly v / scalingFactor.
Denotes(str, v, scalingFactor) ==
    /\ Cardinality(Points(str)) = 1
    /\ IsDigits(WholePart(str))
    /\ IsDigits(FractionPart(str))
    /\ BigMul(ScaledValueOf(str, Len(FractionPart(str))), scalingFactor)
          = BigMul(v, Pow10(Len(FractionPart(str))))

C28_PaddingCountNeverNegative ==
    req.fn \in {RateFloatFn, QuantityFloatFn, FormatFn} =>
        /\ PaddingCount >= 0
        /\ \A i \in 1..Len(resp.str) : <<resp.str[i]>> # PanicString
        /\ Denotes(resp.str, PaddedValue, PaddedScalingFactor)

C28_Witness ==
    /\ req.fn = QuantityFloatFn
    /\ PaddedScalingFactor = NanosPerUnit
    /\ req.value = BigSub(NanosPerUnit, <<1>>)
    /\ PaddingCount = 0
    /\ resp.str = <<"0", ".">> \o [i \in 1..9 |-> "9"]


(***************************************************************************)
(* C29: for every pair with exactly one native coin, isCoinToFillDESO is   *)
(* true for exactly one of the two operation types (BID when the buying    *)
(* coin is native, ASK when the selling coin is native); for every DAO     *)
(* coin pair it is false for both operation types.                         *)
(***************************************************************************)
OtherOperationTypeString ==
    IF req.operationTypeString = DAOCoinLimitOrderOperationTypeStringASK
    THEN DAOCoinLimitOrderOperationTypeStringBID
    ELSE DAOCoinLimitOrderOperationTypeStringASK

ForOtherOperationType == isCoinToFillDESO(req.buying, req.selling, OtherOperationTypeString)

ExactlyOneNative == BuyingNative # SellingNative

C29_NativeFillForOneOperationType ==
    (req.fn = "isCoinToFillDESO" /\ req.operationTypeString \in OperationTypeStrings) =>
        /\ ExactlyOneNative =>
              /\ resp.flag # ForOtherOperationType
              /\ BuyingNative =>
                    (resp.flag <=>
                        req.operationTypeString = DAOCoinLimitOrderOperationTypeStringBID)
              /\ SellingNative =>
                    (resp.flag <=>
                        req.operationTypeString = DAOCoinLimitOrderOperationTypeStringASK)
        /\ (~BuyingNative /\ ~SellingNative) =>
              ~resp.flag /\ ~ForOtherOperationType

C29_Witness ==
    /\ req.fn = "isCoinToFillDESO"
    /\ req.buying = DESOCoinIdentifierString /\ req.selling = "BC1YLCreatorA"
    /\ req.operationTypeString = DAOCoinLimitOrderOperationTypeStringASK
    /\ ~resp.flag
    /\ ForOtherOperationType


(***************************************************************************)
(* C30: round trip of a quantity.  For every coin pair, operation type and *)
(* decimal quantity q with no more fractional digits than the unit of the  *)
(* coin to fill (9 for native, 18 for a DAO coin),                         *)
(* CalculateQuantityAsString applied to                                    *)
(* CalculateQuantityToFillAsBaseUnits(q) with the same pair and operation  *)
(* type gives back q modulo trailing zeros.                                *)
(***************************************************************************)
QuantityStringFn == "CalculateQuantityAsString"

FractionDigits(q) == IF HasPoint(q) THEN Len(FractionPart(q)) ELSE 0
UnitDigits ==
    IF isCoinToFillDESO(req.buying, req.selling, req.operationTypeString) THEN 9 ELSE 18
WrittenAs(q) ==
    CalculateQuantityToFillAsBaseUnits(req.buying, req.selling, req.operationTypeString, q)

C30_QuantityRoundTrip ==
    /\ (req.fn = QuantityFn /\ resp.err = ErrNil /\ FractionDigits(req.value) <= UnitDigits) =>
          TrimFraction(CalculateQuantityAsString(
              req.buying, req.selling, req.operationTypeString, resp.val))
            = TrimFraction(req.value)
    /\ req.fn = QuantityStringFn =>
          \A q \in EnteredQuantities :
              (/\ FractionDigits(q) <= UnitDigits
               /\ WrittenAs(q).err = ErrNil
               /\ WrittenAs(q).val = req.value)
                  => TrimFraction(resp.str) = TrimFraction(q)

C30_Witness ==
    /\ req.fn = QuantityStringFn
    /\ UnitDigits = 18
    /\ WrittenAs(<<"1", ".", "0", "0", "0", "0", "0", "0", "0", "0", "0", "0", "0", "0", "0", "0", "0", "0", "0", "1">>).val = req.value
    /\ resp.str = <<"1", ".", "0", "0", "0", "0", "0", "0", "0", "0", "0", "0", "0", "0", "0", "0", "0", "0", "0", "1">>


(***************************************************************************)
(* C21: the operations are pure: building a response for an order (price,  *)
(* quantity, float rate, float quantity) leaves the order's stored         *)
(* ScaledExchangeRateCoinsToSellPerCoinToBuy and QuantityToFillInBaseUnits *)
(* and the shared constants (10^38, 10^18 base units per coin) unchanged,  *)
(* so repeated and interleaved calls on the same order from concurrent     *)
(* requests build the same response every time.                            *)
(***************************************************************************)
StoredOrder ==
    [OrderID |-> 1,
     OperationType |->
        orderOperationTypeToUint64(mem.operationTypeString).num,
     ScaledExchangeRateCoinsToSellPerCoinToBuy |-> mem.stored.rate,
     QuantityToFillInBaseUnits |-> mem.stored.quantity,
     BuyingCoin |-> mem.buying, SellingCoin |-> mem.selling]

ExpectedResponse ==
    buildDAOCoinLimitOrderResponse("BC1YLTransactor", mem.buying, mem.selling, StoredOrder)

CallDone(c) == mem.active /\ mem.calls[c].pc = "done"

C21_BuildingResponsesIsPure ==
    mem.active =>
        /\ mem.cells.rate = mem.stored.rate
        /\ mem.cells.quantity = mem.stored.quantity
        /\ mem.cells.OneE38 = OneE38
        /\ mem.cells.BaseUnitsPerCoin = BaseUnitsPerCoin
        /\ \A c \in Callers :
              CallDone(c) =>
                  /\ ExpectedResponse.err = ErrNil
                  /\ mem.calls[c].Price = ExpectedResponse.response.Price
                  /\ mem.calls[c].Quantity = ExpectedResponse.response.Quantity
                  /\ mem.calls[c].ExchangeRateCoinsToSellPerCoinToBuy
                        = ExpectedResponse.response.ExchangeRateCoinsToSellPerCoinToBuy
                  /\ mem.calls[c].QuantityToFill
                        = ExpectedResponse.response.QuantityToFill

C21_Witness ==
    /\ mem.active
    /\ mem.buying = DESOCoinIdentifierString
    /\ CallDone(1)
    /\ mem.calls[2].pc = "priceFormat"
    /\ mem.calls[2].local # mem.cells.rate
    /\ mem.calls[1].Price = <<"0", ".">> \o ZeroChars(8) \o <<"2">> \o ZeroChars(29)


(***************************************************************************)
(* C22: for a float whose integer part has n > 15 digits,                  *)
(* formatFloatAsString returns that integer part with its last n - 15      *)
(* digits replaced by zeros, followed by ".0": only the 15 most            *)
(* significant digits are kept and no digit beyond them is non-zero.       *)
(***************************************************************************)
FormatFloatFn == "formatFloatAsString"
FormatFloatLegacyFn == "formatFloatAsStringLegacy"

WholeDigits == SprintfD(IntegerPart(req.value))
LongFloat == Len(WholeDigits) > supportedPrecisionDigits
FifteenDigitsThenZeros ==
    SubSeq(WholeDigits, 1, supportedPrecisionDigits)
        \o ZeroChars(Len(WholeDigits) - supportedPrecisionDigits)
        \o <<".", "0">>

FormatFloatKeepsFifteenDigits ==
    (req.fn = FormatFloatFn /\ LongFloat) => resp.str = FifteenDigitsThenZeros

C22_LongFloatKeepsFifteenDigits ==
    (req.fn \in {FormatFloatFn, FormatFloatLegacyFn} /\ LongFloat) =>
        resp.str = FifteenDigitsThenZeros


(***************************************************************************)
(* C23: validateTransactorSellingCoinBalance returns no error only when    *)
(* the transactor's balance of the selling coin is at least the selling    *)
(* quantity of the new order (the quantity itself for ASK, the quantity    *)
(* converted through the scaled rate for BID) plus the selling quantities  *)
(* of all of the transactor's open orders that sell that same coin,        *)
(* whatever coin those orders buy.                                         *)
(***************************************************************************)
ValidateFn == "validateTransactorSellingCoinBalance"

\* In the request the rate is held in scalingFactor and the quantity in value.
NewOrderSelling ==
    IF req.operationTypeString = DAOCoinLimitOrderOperationTypeStringASK
    THEN req.value
    ELSE BigDiv(BigMul(req.scalingFactor, req.value), OneE38)

RECURSIVE SellingSameCoin(_)
SellingSameCoin(i) ==
    IF i > Len(req.orders) THEN Zero
    ELSE IF req.orders[i].SellingDAOCoinCreatorPKID = req.selling
    THEN BigAdd(req.orders[i].BaseUnitsToSell, SellingSameCoin(i + 1))
    ELSE SellingSameCoin(i + 1)

RECURSIVE SellingSamePair(_)
SellingSamePair(i) ==
    IF i > Len(req.orders) THEN Zero
    ELSE IF CountsOpenOrder(req.buying, req.selling, req.orders[i])
    THEN BigAdd(req.orders[i].BaseUnitsToSell, SellingSamePair(i + 1))
    ELSE SellingSamePair(i + 1)

\* What the code ensures: the open orders of the same pair are covered.
ValidateCoversSamePair ==
    (req.fn = ValidateFn /\ resp.err = ErrNil) =>
        /\ req.operationTypeString \in OperationTypeStrings
        /\ BigCmp(req.balance, BigAdd(NewOrderSelling, SellingSamePair(1))) >= 0

C23_BalanceCoversAllOrdersSellingCoin ==
    (req.fn = ValidateFn /\ resp.err = ErrNil) =>
        /\ req.operationTypeString \in OperationTypeStrings
        /\ BigCmp(req.balance, BigAdd(NewOrderSelling, SellingSameCoin(1))) >= 0


(***************************************************************************)
(* C24: ValidateAccessGroupPublicKeyAndName returns a non-nil error        *)
(* whenever the access group key name equals the base group key name (all  *)
(* zeros); it never returns the decoded key bytes with a nil error for the *)
(* base key name.                                                          *)
(***************************************************************************)
IsBaseKeyName(accessGroupKeyName) ==
    NewGroupKeyName(accessGroupKeyName) = BaseGroupKeyName

SendFns == {"SendDmMessage", "SendGroupChatMessage"}

RecipientField ==
    Base58DecodeAndValidatePublickey(
        req.requestData.RecipientAccessGroupPublicKeyBase58Check)

C25_RecipientKeyFromRecipientField ==
    (req.fn \in SendFns) =>
        /\ RecipientField.err # ErrNil => resp.err # ErrNil
        /\ resp.txn # NoTxn =>
              resp.txn.RecipientAccessGroupPublicKey = RecipientField.bytes


\* What the code does: where a transaction is built, both access group keys
\* are decoded from the sender's field.
SendUsesSenderField ==
    (req.fn \in SendFns /\ resp.txn # NoTxn) =>
        resp.txn.RecipientAccessGroupPublicKey =
            Base58DecodeAndValidatePublickey(
                req.requestData.SenderAccessGroupPublicKeyBase58Check).bytes


(***************************************************************************)
(* C26: GetUserDmThreadsOrderedByTimeStamp and                             *)
(* GetUserGroupChatThreadsOrderedByTimestamp return exactly one entry per  *)
(* thread of the user, ordered by the timestamp of the thread's latest     *)
(* message in non-increasing order (newest first), and fail the whole      *)
(* request if the latest message of any thread cannot be fetched.          *)
(***************************************************************************)
ThreadFns ==
    {"GetUserDmThreadsOrderedByTimeStamp", "GetUserGroupChatThreadsOrderedByTimestamp"}

\* The entry that stands for thread i of the request in a response.
LatestOfThread(i) ==
    MessageThread(IF Len(req.threads[i].entries) > 0
                  THEN req.threads[i].entries[1] ELSE EmptyMessageEntry)

OneEntryPerThread ==
    /\ Len(resp.threads) = Len(req.threads)
    /\ \E p \in Permutations(1..Len(req.threads)) :
          \A i \in 1..Len(req.threads) : resp.threads[i] = LatestOfThread(p[i])

NewestFirst ==
    \A i, j \in 1..Len(resp.threads) :
        i < j => resp.threads[i].MessageInfo.TimestampNanos
                    >= resp.threads[j].MessageInfo.TimestampNanos

SomeFetchFails == \E i \in 1..Len(req.threads) : req.threads[i].err # ErrNil

C26_ThreadsNewestFirst ==
    (req.fn \in ThreadFns) =>
        /\ resp.err = ErrNil => OneEntryPerThread /\ NewestFirst
        /\ SomeFetchFails => resp.err # ErrNil /\ resp.threads = <<>>

\* Three threads whose latest messages are found oldest first, one of them
\* without a message.
C26_Witness ==
    /\ req.fn \in ThreadFns
    /\ resp.err = ErrNil
    /\ Len(req.threads) = 3
    /\ req.threads[1].entries = <<>>
    /\ req.threads[2].entries # <<>> /\ req.threads[2].entries[1].TimestampNanos = 1
    /\ req.threads[3].entries # <<>> /\ req.threads[3].entries[1].TimestampNanos = 2
    /\ resp.threads[1].Info = 3
=============================================================================
